---- MODULE Spec2Model ----
(***************************************************************************)
(* A model of the intent-resolution and task-dispatch pipeline:            *)
(*   src/src/core/ai_engine.py          (AIEngine)                         *)
(*   src/src/core/automation_engine.py  (AutomationEngine,                 *)
(*                                       BackgroundTaskThread)             *)
(* Texts are TLA+ strings; regular expressions are small syntax trees      *)
(* matched by a backtracking matcher with Python's priorities.             *)
(***************************************************************************)
EXTENDS Integers, Sequences, FiniteSets, TLC

(***************************************************************************)
(* Bounds of the model.                                                    *)
(***************************************************************************)
\* input texts are made of at most MaxWords fragments joined by one blank
MaxWords == 3
\* number of process_request calls in one behaviour of the engine
MaxRequests == 2
\* chat messages are made of at most MaxChatWords fragments
MaxChatWords == 2
\* the texts parsed twice are made of at most MaxTwiceWords fragments
MaxTwiceWords == 2
\* the requests made while a stopped background thread is followed to its end
MaxLiveRequests == 1
\* create_new_workflow is followed while the list has fewer than MaxWorkflows
MaxWorkflows == 3

(***************************************************************************)
(* Strings.                                                                *)
(***************************************************************************)
\* Python's None: where a string is expected, and where an object is expected
None == "<None>"
NoTask == << >>

Ch(s, i) == SubSeq(s, i, i)

UpperAlpha == "ABCDEFGHIJKLMNOPQRSTUVWXYZ"
LowerAlpha == "abcdefghijklmnopqrstuvwxyz"
Digits == "0123456789_"

CharsOf(alphabet) == {Ch(alphabet, k) : k \in 1..Len(alphabet)}

\* str.lower() on one character
ToLower == [c \in CharsOf(UpperAlpha) |->
              Ch(LowerAlpha, CHOOSE k \in 1..Len(UpperAlpha) : Ch(UpperAlpha, k) = c)]
LowerCh(c) == IF c \in DOMAIN ToLower THEN ToLower[c] ELSE c

RECURSIVE LowerFrom(_, _)
LowerFrom(s, i) ==
    IF i > Len(s) THEN "" ELSE LowerCh(Ch(s, i)) \o LowerFrom(s, i + 1)

\* str.lower()
Lower(s) == LowerFrom(s, 1)

\* the character classes \s, \w and . of the re module
IsSpace(c) == c \in {" ", "\t", "\n", "\r"}
WordChars == CharsOf(LowerAlpha) \cup CharsOf(UpperAlpha) \cup CharsOf(Digits)
IsWordCh(c) == c \in WordChars
IsDot(c) == c # "\n"

InClass(cls, c) ==
    CASE cls = "s" -> IsSpace(c)
      [] cls = "w" -> IsWordCh(c)
      [] cls = "." -> IsDot(c)

\* kw in s  (substring test)
Contains(s, kw) ==
    \E i \in 1..(Len(s) - Len(kw) + 1) : SubSeq(s, i, i + Len(kw) - 1) = kw

\* any(word in s for word in kws), kws a sequence of strings
AnyIn(kws, s) == \E k \in 1..Len(kws) : Contains(s, kws[k])

StartsWith(s, p) == Len(s) >= Len(p) /\ SubSeq(s, 1, Len(p)) = p

\* str.strip()
RECURSIVE LStrip(_)
LStrip(s) == IF Len(s) > 0 /\ IsSpace(Ch(s, 1)) THEN LStrip(SubSeq(s, 2, Len(s))) ELSE s
RECURSIVE RStrip(_)
RStrip(s) ==
    IF Len(s) > 0 /\ IsSpace(Ch(s, Len(s))) THEN RStrip(SubSeq(s, 1, Len(s) - 1)) ELSE s
Strip(s) == LStrip(RStrip(s))

\* str.split(): the maximal runs of non-blank characters, in order
RECURSIVE SplitFrom(_, _, _)
SplitFrom(s, i, cur) ==
    IF i > Len(s)
    THEN IF cur = "" THEN << >> ELSE << cur >>
    ELSE IF IsSpace(Ch(s, i))
         THEN (IF cur = "" THEN << >> ELSE << cur >>) \o SplitFrom(s, i + 1, "")
         ELSE SplitFrom(s, i + 1, cur \o Ch(s, i))
Split(s) == SplitFrom(s, 1, "")

\* sep.join(ws)
RECURSIVE Join(_, _)
Join(ws, sep) ==
    IF Len(ws) = 0 THEN ""
    ELSE IF Len(ws) = 1 THEN ws[1]
    ELSE ws[1] \o sep \o Join(Tail(ws), sep)

(***************************************************************************)
(* Regular expressions: re.search with one optional capture group.         *)
(* A match result is <<e, g>>: e the position after the match, g the span  *)
(* <<from, to>> of group 1 or << >>.  Matches are listed in the order the  *)
(* backtracking matcher tries them, so the first one is the match.         *)
(***************************************************************************)
Lit(s) == [t |-> "lit", s |-> s]
Alt(rs) == [t |-> "alt", rs |-> rs]
Cat(rs) == [t |-> "cat", rs |-> rs]
Plus(cls) == [t |-> "plus", cls |-> cls]
Opt(r) == [t |-> "opt", r |-> r]
Grp(r) == [t |-> "grp", r |-> r]

\* the length of the longest run of characters of class cls starting at i
RECURSIVE RunLen(_, _, _)
RunLen(cls, s, i) ==
    IF i <= Len(s) /\ InClass(cls, Ch(s, i)) THEN 1 + RunLen(cls, s, i + 1) ELSE 0

RECURSIVE Match(_, _, _, _)
RECURSIVE MatchAlt(_, _, _, _, _)
RECURSIVE MatchCat(_, _, _, _, _)
RECURSIVE MatchRest(_, _, _, _, _)

Match(r, s, i, g) ==
    CASE r.t = "lit" ->
           IF i + Len(r.s) - 1 <= Len(s) /\ SubSeq(s, i, i + Len(r.s) - 1) = r.s
           THEN << <<i + Len(r.s), g>> >> ELSE << >>
      [] r.t = "alt" -> MatchAlt(r.rs, 1, s, i, g)
      [] r.t = "cat" -> MatchCat(r.rs, 1, s, i, g)
      [] r.t = "plus" ->
           LET n == RunLen(r.cls, s, i)
           IN  [j \in 1..n |-> <<i + (n + 1 - j), g>>]
      [] r.t = "opt" -> Match(r.r, s, i, g) \o << <<i, g>> >>
      [] r.t = "grp" ->
           LET ms == Match(r.r, s, i, g)
           IN  [j \in 1..Len(ms) |-> <<ms[j][1], <<i, ms[j][1] - 1>> >>]

MatchAlt(rs, k, s, i, g) ==
    IF k > Len(rs) THEN << >>
    ELSE Match(rs[k], s, i, g) \o MatchAlt(rs, k + 1, s, i, g)

MatchCat(rs, k, s, i, g) ==
    IF k > Len(rs) THEN << <<i, g>> >>
    ELSE MatchRest(rs, k, s, Match(rs[k], s, i, g), 1)

\* continue the concatenation after each way ms[j] of matching rs[k]
MatchRest(rs, k, s, ms, j) ==
    IF j > Len(ms) THEN << >>
    ELSE MatchCat(rs, k + 1, s, ms[j][1], ms[j][2]) \o MatchRest(rs, k, s, ms, j + 1)

NoMatch == [ok |-> FALSE]

\* re.search(r, s): the match at the leftmost position that has one
RECURSIVE SearchFrom(_, _, _)
SearchFrom(r, s, i) ==
    IF i > Len(s) + 1 THEN NoMatch
    ELSE LET ms == Match(r, s, i, << >>)
         IN  IF Len(ms) = 0 THEN SearchFrom(r, s, i + 1)
             ELSE [ok |-> TRUE,
                   groups |-> IF ms[1][2] = << >> THEN 0 ELSE 1,
                   g1 |-> IF ms[1][2] = << >> THEN ""
                          ELSE SubSeq(s, ms[1][2][1], ms[1][2][2])]

Search(r, s) == SearchFrom(r, s, 1)

(***************************************************************************)
(* Input texts: up to n fragments of Vocabulary joined by single blanks.   *)
(* The empty fragment gives leading, trailing and doubled blanks.          *)
(***************************************************************************)
Vocabulary ==
    {"", "open", "Chrome", "search", "for", "save", "file", "volume", "up", "click"}

TextsUpTo(n) ==
    UNION {{Join(ws, " ") : ws \in [1..k -> Vocabulary]} : k \in 0..n}

Texts == TextsUpTo(MaxWords)

(***************************************************************************)
(* AIEngine: keyword buckets and task templates.                           *)
(***************************************************************************)
\* self.intents, in insertion order
intents ==
    << [name |-> "automation",
        words |-> <<"open", "close", "click", "type", "navigate", "search",
                    "start", "stop", "launch", "switch", "minimize", "maximize">>],
       [name |-> "information",
        words |-> <<"what", "how", "why", "when", "where", "explain", "tell",
                    "show", "find", "search", "lookup">>],
       [name |-> "workflow",
        words |-> <<"record", "save", "create", "edit", "run", "execute",
                    "schedule", "automate", "workflow">>] >>

S1 == Plus("s")
FileVerbs == Alt(<<Lit("open"), Lit("create"), Lit("save"), Lit("delete")>>)

\* self.task_templates, in insertion order
task_templates ==
    << [name |-> "open_application",
        patterns |-> << Cat(<<Lit("open"), S1, Grp(Plus("w"))>>),
                        Cat(<<Lit("launch"), S1, Grp(Plus("w"))>>),
                        Cat(<<Lit("start"), S1, Grp(Plus("w"))>>) >>,
        action |-> "open_app",
        parameters |-> <<"app_name">>],
       [name |-> "web_search",
        patterns |-> << Cat(<<Lit("search"), S1, Opt(Cat(<<Lit("for"), S1>>)),
                              Grp(Plus("."))>>),
                        Cat(<<Lit("google"), S1, Grp(Plus("."))>>),
                        Cat(<<Lit("find"), S1, Grp(Plus("."))>>) >>,
        action |-> "web_search",
        parameters |-> <<"query">>],
       [name |-> "file_operation",
        patterns |-> << Cat(<<FileVerbs, S1, Alt(<<Lit("file"), Lit("folder")>>), S1,
                              Grp(Plus("."))>>),
                        Cat(<<FileVerbs, S1, Grp(Plus("."))>>) >>,
        action |-> "file_operation",
        parameters |-> <<"file_path", "operation">>],
       [name |-> "system_control",
        patterns |-> << Cat(<<Alt(<<Lit("shutdown"), Lit("restart"), Lit("sleep"),
                                    Lit("wake")>>), S1,
                              Alt(<<Lit("computer"), Lit("pc")>>)>>),
                        Cat(<<Alt(<<Lit("volume"), Lit("brightness"), Lit("wifi"),
                                    Lit("bluetooth")>>), S1,
                              Alt(<<Lit("up"), Lit("down"), Lit("on"), Lit("off")>>)>>) >>,
        action |-> "system_control",
        parameters |-> <<"control_type", "value">>] >>

InSeq(e, sq) == \E k \in 1..Len(sq) : sq[k] = e

EmptyMap == << >>

\* a variant of extract_parameters that runs each regex on the text as typed
extract_parameters_cased(msg, template) ==
    LET app == Search(Cat(<<Alt(<<Lit("open"), Lit("launch"), Lit("start")>>), S1,
                            Grp(Plus("w"))>>), msg)
        qry == Search(Cat(<<Alt(<<Lit("search"), Lit("google"), Lit("find")>>), S1,
                            Opt(Cat(<<Lit("for"), S1>>)), Grp(Plus("."))>>), msg)
        fil == Search(Cat(<<Alt(<<Lit("file"), Lit("folder")>>), S1, Grp(Plus("."))>>),
                      msg)
        p1 == IF InSeq("app_name", template.parameters) /\ app.ok
              THEN "app_name" :> app.g1 ELSE EmptyMap
        p2 == IF InSeq("query", template.parameters) /\ qry.ok
              THEN "query" :> qry.g1 ELSE EmptyMap
        p3 == IF InSeq("file_path", template.parameters) /\ fil.ok
              THEN "file_path" :> fil.g1 ELSE EmptyMap
    IN  p1 @@ p2 @@ p3

\* a variant of extract_parameters that finds each value in the lower-cased
\* text and returns it as it is typed in the text
extract_parameters_as_typed(msg, template) ==
    LET lower == Lower(msg)
        Typed(g) ==
            IF g = "" THEN ""
            ELSE LET at == {i \in 1..(Len(lower) - Len(g) + 1) :
                               SubSeq(lower, i, i + Len(g) - 1) = g}
                     i == CHOOSE i \in at : \A j \in at : i >= j
                 IN  SubSeq(msg, i, i + Len(g) - 1)
        app == Search(Cat(<<Alt(<<Lit("open"), Lit("launch"), Lit("start")>>), S1,
                            Grp(Plus("w"))>>), lower)
        qry == Search(Cat(<<Alt(<<Lit("search"), Lit("google"), Lit("find")>>), S1,
                            Opt(Cat(<<Lit("for"), S1>>)), Grp(Plus("."))>>), lower)
        fil == Search(Cat(<<Alt(<<Lit("file"), Lit("folder")>>), S1, Grp(Plus("."))>>),
                      lower)
        p1 == IF InSeq("app_name", template.parameters) /\ app.ok
              THEN "app_name" :> Typed(app.g1) ELSE EmptyMap
        p2 == IF InSeq("query", template.parameters) /\ qry.ok
              THEN "query" :> Typed(qry.g1) ELSE EmptyMap
        p3 == IF InSeq("file_path", template.parameters) /\ fil.ok
              THEN "file_path" :> Typed(fil.g1) ELSE EmptyMap
    IN  p1 @@ p2 @@ p3

\* AIEngine.extract_parameters
extract_parameters(msg, template) ==
    LET lower == Lower(msg)
        app == Search(Cat(<<Alt(<<Lit("open"), Lit("launch"), Lit("start")>>), S1,
                            Grp(Plus("w"))>>), lower)
        qry == Search(Cat(<<Alt(<<Lit("search"), Lit("google"), Lit("find")>>), S1,
                            Opt(Cat(<<Lit("for"), S1>>)), Grp(Plus("."))>>), lower)
        fil == Search(Cat(<<Alt(<<Lit("file"), Lit("folder")>>), S1, Grp(Plus("."))>>),
                      lower)
        p1 == IF InSeq("app_name", template.parameters) /\ app.ok
              THEN "app_name" :> app.g1 ELSE EmptyMap
        p2 == IF InSeq("query", template.parameters) /\ qry.ok
              THEN "query" :> qry.g1 ELSE EmptyMap
        p3 == IF InSeq("file_path", template.parameters) /\ fil.ok
              THEN "file_path" :> fil.g1 ELSE EmptyMap
    IN  p1 @@ p2 @@ p3

\* a variant of the template loop that walks the templates from the last to
\* the first
RECURSIVE TemplateLoopLastFirst(_, _, _, _)
TemplateLoopLastFirst(msg, lower, t, p) ==
    LET u == Len(task_templates) + 1 - t
    IN  IF t > Len(task_templates) THEN NoMatch
        ELSE IF p > Len(task_templates[u].patterns)
             THEN TemplateLoopLastFirst(msg, lower, t + 1, 1)
             ELSE LET m == Search(task_templates[u].patterns[p], lower)
                  IN  IF m.ok
                      THEN [ok |-> TRUE,
                            action |-> task_templates[u].action,
                            target |-> IF m.groups > 0 THEN m.g1 ELSE "",
                            parameters |-> extract_parameters(msg, task_templates[u])]
                      ELSE TemplateLoopLastFirst(msg, lower, t, p + 1)

\* the template loop of extract_action_target: templates from t, patterns from p
RECURSIVE TemplateLoop(_, _, _, _)
TemplateLoop(msg, lower, t, p) ==
    IF t > Len(task_templates) THEN NoMatch
    ELSE IF p > Len(task_templates[t].patterns)
         THEN TemplateLoop(msg, lower, t + 1, 1)
         ELSE LET m == Search(task_templates[t].patterns[p], lower)
              IN  IF m.ok
                  THEN [ok |-> TRUE,
                        action |-> task_templates[t].action,
                        target |-> IF m.groups > 0 THEN m.g1 ELSE "",
                        parameters |-> extract_parameters(msg, task_templates[t])]
                  ELSE TemplateLoop(msg, lower, t, p + 1)

\* a variant of extract_action_target whose positional fallback splits the text
\* as typed
extract_action_target_cased(msg) ==
    LET lower == Lower(msg)
        hit == TemplateLoop(msg, lower, 1, 1)
        words == Split(msg)
    IN  IF hit.ok
        THEN [action |-> hit.action, target |-> hit.target, parameters |-> hit.parameters]
        ELSE IF Len(words) >= 2
             THEN [action |-> words[1], target |-> Join(Tail(words), " "),
                   parameters |-> EmptyMap]
             ELSE [action |-> "unknown", target |-> msg, parameters |-> EmptyMap]

\* AIEngine.extract_action_target
extract_action_target(msg) ==
    LET lower == Lower(msg)
        hit == TemplateLoop(msg, lower, 1, 1)
        words == Split(lower)
    IN  IF hit.ok
        THEN [action |-> hit.action, target |-> hit.target, parameters |-> hit.parameters]
        ELSE IF Len(words) >= 2
             THEN [action |-> words[1], target |-> Join(Tail(words), " "),
                   parameters |-> EmptyMap]
             ELSE [action |-> "unknown", target |-> msg, parameters |-> EmptyMap]

\* sum(1 for word in words if word in message_lower)
Score(words, lower) == Cardinality({k \in 1..Len(words) : Contains(lower, words[k])})

\* a variant of the bucket selection that keeps the last bucket, in order, with
\* the largest score
MaxBucketLast(scores) ==
    CHOOSE k \in 1..Len(scores) :
        /\ \A j \in 1..Len(scores) : scores[j] <= scores[k]
        /\ \A j \in (k + 1)..Len(scores) : scores[j] < scores[k]

\* max(scores, key=scores.get): the first bucket, in order, with the largest score
MaxBucket(scores) ==
    CHOOSE k \in 1..Len(scores) :
        /\ \A j \in 1..Len(scores) : scores[j] <= scores[k]
        /\ \A j \in 1..(k - 1) : scores[j] < scores[k]

Max(a, b) == IF a >= b THEN a ELSE b

\* a variant of parse_intent that caps the confidence at 1
parse_intent_clamped(msg) ==
    LET lower == Lower(msg)
        scores == [k \in 1..Len(intents) |-> Score(intents[k].words, lower)]
        best == MaxBucket(scores)
        at == extract_action_target(msg)
        den == Max(Len(Split(msg)), 1)
    IN  [action |-> at.action, target |-> at.target, parameters |-> at.parameters,
         confidence |-> [num |-> IF scores[best] > den THEN den ELSE scores[best],
                         den |-> den],
         task_type |-> intents[best].name]

\* a variant of parse_intent that answers "chat" for a text that hits no keyword
parse_intent_chat(msg) ==
    LET lower == Lower(msg)
        scores == [k \in 1..Len(intents) |-> Score(intents[k].words, lower)]
        best == MaxBucket(scores)
        at == extract_action_target(msg)
    IN  [action |-> at.action, target |-> at.target, parameters |-> at.parameters,
         confidence |-> [num |-> scores[best], den |-> Max(Len(Split(msg)), 1)],
         task_type |-> IF scores[best] = 0 THEN "chat" ELSE intents[best].name]

\* AIEngine.parse_intent; the confidence is the fraction num / den
parse_intent(msg) ==
    LET lower == Lower(msg)
        scores == [k \in 1..Len(intents) |-> Score(intents[k].words, lower)]
        best == MaxBucket(scores)
        at == extract_action_target(msg)
    IN  [action |-> at.action, target |-> at.target, parameters |-> at.parameters,
         confidence |-> [num |-> scores[best], den |-> Max(Len(Split(msg)), 1)],
         task_type |-> intents[best].name]

(***************************************************************************)
(* AutomationEngine: lookup tables and the request parser.                 *)
(***************************************************************************)
\* self.app_paths
app_paths ==
    << <<"chrome", "C:\\Program Files\\Google\\Chrome\\Application\\chrome.exe">>,
       <<"firefox", "C:\\Program Files\\Mozilla Firefox\\firefox.exe">>,
       <<"edge", "C:\\Program Files (x86)\\Microsoft\\Edge\\Application\\msedge.exe">>,
       <<"notepad", "C:\\Windows\\System32\\notepad.exe">>,
       <<"calculator", "C:\\Windows\\System32\\calc.exe">>,
       <<"explorer", "C:\\Windows\\explorer.exe">>,
       <<"word", "C:\\Program Files\\Microsoft Office\\root\\Office16\\WINWORD.EXE">>,
       <<"excel", "C:\\Program Files\\Microsoft Office\\root\\Office16\\EXCEL.EXE">>,
       <<"powerpoint", "C:\\Program Files\\Microsoft Office\\root\\Office16\\POWERPNT.EXE">>,
       <<"outlook", "C:\\Program Files\\Microsoft Office\\root\\Office16\\OUTLOOK.EXE">> >>

\* self.app_aliases
app_aliases ==
    << <<"browser", "chrome">>, <<"web browser", "chrome">>, <<"internet", "chrome">>,
       <<"text editor", "notepad">>, <<"calc", "calculator">>,
       <<"file manager", "explorer">>, <<"files", "explorer">> >>

\* self.app_mappings
app_mappings ==
    << <<"chrome", "chrome">>, <<"google chrome", "chrome">>, <<"firefox", "firefox">>,
       <<"mozilla", "firefox">>, <<"edge", "edge">>, <<"microsoft edge", "edge">>,
       <<"word", "word">>, <<"microsoft word", "word">>, <<"excel", "excel">>,
       <<"microsoft excel", "excel">>, <<"powerpoint", "powerpoint">>,
       <<"microsoft powerpoint", "powerpoint">>, <<"outlook", "outlook">>,
       <<"microsoft outlook", "outlook">>, <<"notepad", "notepad">>,
       <<"calculator", "calculator">>, <<"calc", "calculator">>,
       <<"explorer", "explorer">>, <<"file explorer", "explorer">>,
       <<"files", "explorer">>, <<"visual studio", "devenv">>, <<"vs code", "code">>,
       <<"vscode", "code">>, <<"visual studio code", "code">>,
       <<"pycharm", "pycharm64">>, <<"intellij", "idea64">>,
       <<"sublime", "sublime_text">>, <<"spotify", "spotify">>, <<"vlc", "vlc">>,
       <<"media player", "wmplayer">>, <<"windows media player", "wmplayer">> >>

\* key in table
HasKey(table, key) == \E k \in 1..Len(table) : table[k][1] = key

\* table.get(key, default)
Get(table, key, default) ==
    IF HasKey(table, key)
    THEN table[CHOOSE k \in 1..Len(table) : table[k][1] = key][2]
    ELSE default

\* the first pattern of ps, in order, that re.search finds in s
RECURSIVE FirstSearch(_, _, _)
FirstSearch(ps, s, k) ==
    IF k > Len(ps) THEN NoMatch
    ELSE LET m == Search(ps[k], s)
         IN  IF m.ok THEN m ELSE FirstSearch(ps, s, k + 1)

\* x or default, for a string or None
OrElse(v, default) == IF v = None \/ v = "" THEN default ELSE v

\* AutomationEngine.parse_open_app_request
parse_open_app_request(request, background_mode) ==
    LET request_lower == Lower(request)
        m == FirstSearch(<< Cat(<<Lit("open"), S1, Grp(Plus("w"))>>),
                            Cat(<<Lit("launch"), S1, Grp(Plus("w"))>>),
                            Cat(<<Lit("start"), S1, Grp(Plus("w"))>>) >>,
                         request_lower, 1)
        words == Split(request_lower)
        known == {k \in 1..Len(words) : HasKey(app_mappings, words[k])}
        app_name == IF m.ok THEN m.g1
                    ELSE IF known # {}
                         THEN words[CHOOSE k \in known : \A j \in known : k <= j]
                         ELSE None
        mapped_app == Get(app_mappings, app_name, app_name)
    IN  IF app_name # None /\ app_name # ""
        THEN [action |-> "open_app", target |-> mapped_app,
              parameters |-> [app_name |-> app_name, mapped_app |-> mapped_app],
              background_mode |-> background_mode]
        ELSE [action |-> "open_app", target |-> "unknown",
              parameters |-> [app_name |-> "unknown"],
              background_mode |-> background_mode]

\* a variant of parse_web_search_request whose first pattern has no optional "for"
parse_web_search_request_keeps_for(request, background_mode) ==
    LET request_lower == Lower(request)
        m == FirstSearch(<< Cat(<<Lit("search"), S1, Grp(Plus("."))>>),
                            Cat(<<Lit("google"), S1, Grp(Plus("."))>>),
                            Cat(<<Lit("find"), S1, Grp(Plus("."))>>) >>,
                         request_lower, 1)
        query == IF m.ok THEN Strip(m.g1) ELSE None
    IN  [action |-> "web_search", target |-> OrElse(query, "unknown"),
         parameters |-> [query |-> query],
         background_mode |-> background_mode]

\* a variant of parse_web_search_request that gives up when it finds no query
parse_web_search_request_or_none(request, background_mode) ==
    LET m == FirstSearch(<< Cat(<<Lit("search"), S1, Opt(Cat(<<Lit("for"), S1>>)),
                                  Grp(Plus("."))>>),
                            Cat(<<Lit("google"), S1, Grp(Plus("."))>>),
                            Cat(<<Lit("find"), S1, Grp(Plus("."))>>) >>,
                         Lower(request), 1)
    IN  IF m.ok
        THEN [action |-> "web_search", target |-> OrElse(Strip(m.g1), "unknown"),
              parameters |-> [query |-> Strip(m.g1)],
              background_mode |-> background_mode]
        ELSE NoTask

\* AutomationEngine.parse_web_search_request
parse_web_search_request(request, background_mode) ==
    LET request_lower == Lower(request)
        m == FirstSearch(<< Cat(<<Lit("search"), S1, Opt(Cat(<<Lit("for"), S1>>)),
                                  Grp(Plus("."))>>),
                            Cat(<<Lit("google"), S1, Grp(Plus("."))>>),
                            Cat(<<Lit("find"), S1, Grp(Plus("."))>>) >>,
                         request_lower, 1)
        query == IF m.ok THEN Strip(m.g1) ELSE None
    IN  [action |-> "web_search", target |-> OrElse(query, "unknown"),
         parameters |-> [query |-> query],
         background_mode |-> background_mode]

\* AutomationEngine.parse_file_operation_request
parse_file_operation_request(request, background_mode) ==
    LET request_lower == Lower(request)
        operation ==
            IF Contains(request_lower, "create") THEN "create"
            ELSE IF Contains(request_lower, "delete") \/ Contains(request_lower, "remove")
                 THEN "delete"
            ELSE IF Contains(request_lower, "save") THEN "save"
            ELSE "open"
        m == FirstSearch(<< Cat(<<Alt(<<Lit("file"), Lit("folder")>>), S1,
                                  Grp(Plus("."))>>),
                            Cat(<<FileVerbs, S1, Grp(Plus("."))>>) >>,
                         request_lower, 1)
        file_path == IF m.ok THEN Strip(m.g1) ELSE None
    IN  [action |-> "file_operation", target |-> OrElse(file_path, "unknown"),
         parameters |-> [operation |-> operation, file_path |-> file_path],
         background_mode |-> background_mode]

\* AutomationEngine.parse_system_control_request
parse_system_control_request(request, background_mode) ==
    LET request_lower == Lower(request)
        control_type ==
            IF Contains(request_lower, "volume") THEN "volume"
            ELSE IF Contains(request_lower, "brightness") THEN "brightness"
            ELSE IF Contains(request_lower, "wifi") THEN "wifi"
            ELSE IF Contains(request_lower, "bluetooth") THEN "bluetooth"
            ELSE None
        value ==
            IF Contains(request_lower, "up") \/ Contains(request_lower, "increase")
            THEN "up"
            ELSE IF Contains(request_lower, "down") \/ Contains(request_lower, "decrease")
                 THEN "down"
            ELSE IF Contains(request_lower, "on") \/ Contains(request_lower, "enable")
                 THEN "on"
            ELSE IF Contains(request_lower, "off") \/ Contains(request_lower, "disable")
                 THEN "off"
            ELSE None
    IN  [action |-> "system_control", target |-> OrElse(control_type, "unknown"),
         parameters |-> [control_type |-> control_type, value |-> value],
         background_mode |-> background_mode]

\* a variant of parse_interaction_request that tags every task "interaction"
\* and leaves the verb to the parameters
parse_interaction_request_tagged(request, background_mode) ==
    LET request_lower == Lower(request)
        action ==
            IF Contains(request_lower, "click") THEN "click"
            ELSE IF Contains(request_lower, "type") \/ Contains(request_lower, "enter")
                 THEN "type"
            ELSE IF Contains(request_lower, "press") THEN "press"
            ELSE "click"
        words == Split(request_lower)
        verbs == {k \in 1..Len(words) :
                     words[k] \in {"click", "type", "press"} /\ k + 1 <= Len(words)}
        target == IF verbs # {}
                  THEN words[(CHOOSE k \in verbs : \A j \in verbs : k <= j) + 1]
                  ELSE None
    IN  [action |-> "interaction", target |-> OrElse(target, "unknown"),
         parameters |-> [action |-> action, target |-> target],
         background_mode |-> background_mode]

\* AutomationEngine.parse_interaction_request
parse_interaction_request(request, background_mode) ==
    LET request_lower == Lower(request)
        action ==
            IF Contains(request_lower, "click") THEN "click"
            ELSE IF Contains(request_lower, "type") \/ Contains(request_lower, "enter")
                 THEN "type"
            ELSE IF Contains(request_lower, "press") THEN "press"
            ELSE "click"
        words == Split(request_lower)
        verbs == {k \in 1..Len(words) :
                     words[k] \in {"click", "type", "press"} /\ k + 1 <= Len(words)}
        target == IF verbs # {}
                  THEN words[(CHOOSE k \in verbs : \A j \in verbs : k <= j) + 1]
                  ELSE None
    IN  [action |-> action, target |-> OrElse(target, "unknown"),
         parameters |-> [action |-> action, target |-> target],
         background_mode |-> background_mode]

\* the keyword groups of parse_automation_request, in the order they are tested
routing ==
    << <<"open", "launch", "start">>,
       <<"search", "google", "find">>,
       <<"file", "folder", "document">>,
       <<"volume", "brightness", "wifi", "bluetooth">>,
       <<"click", "type", "press">> >>

\* a variant of parse_automation_request that looks for the file words before
\* the search words
parse_automation_request_file_first(request, background_mode) ==
    LET request_lower == Lower(request)
    IN  IF AnyIn(routing[1], request_lower)
        THEN parse_open_app_request(request, background_mode)
        ELSE IF AnyIn(routing[3], request_lower)
        THEN parse_file_operation_request(request, background_mode)
        ELSE IF AnyIn(routing[2], request_lower)
        THEN parse_web_search_request(request, background_mode)
        ELSE IF AnyIn(routing[4], request_lower)
        THEN parse_system_control_request(request, background_mode)
        ELSE IF AnyIn(routing[5], request_lower)
        THEN parse_interaction_request(request, background_mode)
        ELSE NoTask

\* AutomationEngine.parse_automation_request: a task, or NoTask for None
parse_automation_request(request, background_mode) ==
    LET request_lower == Lower(request)
    IN  IF AnyIn(routing[1], request_lower)
        THEN parse_open_app_request(request, background_mode)
        ELSE IF AnyIn(routing[2], request_lower)
        THEN parse_web_search_request(request, background_mode)
        ELSE IF AnyIn(routing[3], request_lower)
        THEN parse_file_operation_request(request, background_mode)
        ELSE IF AnyIn(routing[4], request_lower)
        THEN parse_system_control_request(request, background_mode)
        ELSE IF AnyIn(routing[5], request_lower)
        THEN parse_interaction_request(request, background_mode)
        ELSE NoTask

(***************************************************************************)
(* AutomationEngine: the executors.  What the operating system and the     *)
(* input library do is an environment env:                                 *)
(*   exists, isdir   os.path.exists / os.path.isdir of the path looked at  *)
(*   located         pyautogui.locateOnScreen finds the image              *)
(*   faults          what the first and the second OS or input primitive   *)
(*                   called by the executor raise ("none": it returns)     *)
(* An executor yields its result string, the primitives it called, the    *)
(* fault one of them raised and the fault that leaves the executor (each   *)
(* "none" when there is none).                                             *)
(***************************************************************************)
Faults == {"none", "FileNotFoundError", "OSError"}

Envs == {e \in [exists : BOOLEAN, isdir : BOOLEAN, located : BOOLEAN,
                faults : [1..2 -> Faults]] : e.isdir => e.exists}

Returned(result, calls, fault) ==
    [result |-> result, calls |-> calls, fault |-> fault, raised |-> "none"]

\* parameters.get(key, default)
ParamGet(parameters, key, default) ==
    IF key \in DOMAIN parameters THEN parameters[key] ELSE default

\* a variant of get_app_path that stops after the alias table
get_app_path_without_mappings(app_name) ==
    IF HasKey(app_paths, app_name) THEN Get(app_paths, app_name, None)
    ELSE IF HasKey(app_aliases, app_name)
         THEN Get(app_paths, Get(app_aliases, app_name, None), None)
    ELSE None

\* AutomationEngine.get_app_path
get_app_path(app_name) ==
    IF HasKey(app_paths, app_name) THEN Get(app_paths, app_name, None)
    ELSE IF HasKey(app_aliases, app_name)
         THEN Get(app_paths, Get(app_aliases, app_name, None), None)
    ELSE IF HasKey(app_mappings, app_name)
         THEN Get(app_paths, Get(app_mappings, app_name, None), None)
    ELSE None

\* a variant of open_application without the outer try/except: only the
\* FileNotFoundError of the launch by bare name is caught
open_application_unguarded(app_name, parameters, env) ==
    LET app_path == get_app_path(app_name)
        f == env.faults[1]
        call == IF app_path # None /\ env.exists
                THEN "Popen:" \o app_path ELSE "Popen:" \o app_name
    IN  IF f = "none" THEN Returned("Opened " \o app_name, <<call>>, "none")
        ELSE IF f = "FileNotFoundError" /\ ~(app_path # None /\ env.exists)
        THEN Returned("Could not find application: " \o app_name, <<call>>, f)
        ELSE [result |-> None, calls |-> <<call>>, fault |-> f, raised |-> f]

\* AutomationEngine.open_application
open_application(app_name, parameters, env) ==
    LET app_path == get_app_path(app_name)
        f == env.faults[1]
    IN  IF app_path # None /\ env.exists
        THEN IF f = "none"
             THEN Returned("Opened " \o app_name, <<"Popen:" \o app_path>>, "none")
             ELSE Returned("Error opening " \o app_name \o ": " \o f,
                           <<"Popen:" \o app_path>>, f)
        ELSE IF f = "none"
             THEN Returned("Opened " \o app_name, <<"Popen:" \o app_name>>, "none")
             ELSE IF f = "FileNotFoundError"
                  THEN Returned("Could not find application: " \o app_name,
                                <<"Popen:" \o app_name>>, f)
                  ELSE Returned("Error opening " \o app_name \o ": " \o f,
                                <<"Popen:" \o app_name>>, f)

\* str.replace(" ", "+")
RECURSIVE PlusForBlank(_, _)
PlusForBlank(s, i) ==
    IF i > Len(s) THEN ""
    ELSE (IF Ch(s, i) = " " THEN "+" ELSE Ch(s, i)) \o PlusForBlank(s, i + 1)

\* AutomationEngine.perform_web_search
perform_web_search(query, parameters, env) ==
    LET search_url == "https://www.google.com/search?q=" \o PlusForBlank(query, 1)
        chrome_path == Get(app_paths, "chrome", None)
        call == IF chrome_path # None /\ env.exists
                THEN "Popen:" \o chrome_path \o " " \o search_url
                ELSE "webbrowser.open:" \o search_url
        f == env.faults[1]
    IN  IF f = "none"
        THEN Returned("Searched for: " \o query, <<call>>, "none")
        ELSE Returned("Error searching for " \o query \o ": " \o f, <<call>>, f)

\* os.path.basename: what follows the last separator
RECURSIVE BaseName(_)
BaseName(path) ==
    IF \E i \in 1..Len(path) : Ch(path, i) \in {"/", "\\"}
    THEN BaseName(SubSeq(path,
                         (CHOOSE i \in 1..Len(path) : Ch(path, i) \in {"/", "\\"}) + 1,
                         Len(path)))
    ELSE path

\* AutomationEngine.perform_file_operation
perform_file_operation(file_path, parameters, env) ==
    LET operation == ParamGet(parameters, "operation", "open")
        f == env.faults[1]
        Prim(call, done) ==
            IF f = "none" THEN Returned(done \o file_path, <<call \o file_path>>, "none")
            ELSE Returned("Error with file operation: " \o f, <<call \o file_path>>, f)
    IN  IF operation = "open"
        THEN IF env.exists THEN Prim("startfile:", "Opened: ")
             ELSE Returned("File not found: " \o file_path, << >>, "none")
        ELSE IF operation = "create"
        THEN IF env.isdir \/ ~Contains(BaseName(file_path), ".")
             THEN Prim("makedirs:", "Created folder: ")
             ELSE Prim("open-w:", "Created file: ")
        ELSE IF operation = "delete"
        THEN IF env.exists
             THEN IF env.isdir THEN Prim("rmdir:", "Deleted folder: ")
                  ELSE Prim("remove:", "Deleted file: ")
             ELSE Returned("File not found: " \o file_path, << >>, "none")
        ELSE Returned("Unknown operation: " \o operation, << >>, "none")

\* a variant of perform_system_control that mutes on any other volume value
perform_system_control_muting(control_type, parameters, env) ==
    LET value == ParamGet(parameters, "value", "unknown")
        f == env.faults[1]
        Prim(call, done) ==
            IF f = "none" THEN Returned(done, <<call>>, "none")
            ELSE Returned("Error with system control: " \o f, <<call>>, f)
        unknown == Returned("Unknown control type: " \o control_type, << >>, "none")
    IN  IF control_type = "volume"
        THEN IF value = "up" THEN Prim("press:volumeup", "Volume increased")
             ELSE IF value = "down" THEN Prim("press:volumedown", "Volume decreased")
             ELSE Prim("press:volumemute", "Volume muted")
        ELSE IF control_type = "brightness"
        THEN IF value = "up" THEN Prim("press:f2", "Brightness increased")
             ELSE IF value = "down" THEN Prim("press:f1", "Brightness decreased")
             ELSE unknown
        ELSE IF control_type \in {"wifi", "bluetooth"}
        THEN Prim("Popen:ms-settings:network", "Opened " \o control_type \o " settings")
        ELSE unknown

\* AutomationEngine.perform_system_control
perform_system_control(control_type, parameters, env) ==
    LET value == ParamGet(parameters, "value", "unknown")
        f == env.faults[1]
        Prim(call, done) ==
            IF f = "none" THEN Returned(done, <<call>>, "none")
            ELSE Returned("Error with system control: " \o f, <<call>>, f)
        unknown == Returned("Unknown control type: " \o control_type, << >>, "none")
    IN  IF control_type = "volume"
        THEN IF value = "up" THEN Prim("press:volumeup", "Volume increased")
             ELSE IF value = "down" THEN Prim("press:volumedown", "Volume decreased")
             ELSE IF value = "off" THEN Prim("press:volumemute", "Volume muted")
             ELSE unknown
        ELSE IF control_type = "brightness"
        THEN IF value = "up" THEN Prim("press:f2", "Brightness increased")
             ELSE IF value = "down" THEN Prim("press:f1", "Brightness decreased")
             ELSE unknown
        ELSE IF control_type \in {"wifi", "bluetooth"}
        THEN Prim("Popen:ms-settings:network", "Opened " \o control_type \o " settings")
        ELSE unknown

\* AutomationEngine.perform_interaction
perform_interaction(action, target, parameters, env) ==
    LET f == env.faults[1]
        g == env.faults[2]
        Prim(call, done) ==
            IF f = "none" THEN Returned(done \o target, <<call>>, "none")
            ELSE Returned("Error with interaction: " \o f, <<call>>, f)
        locate == "locateOnScreen:" \o target \o ".png"
    IN  IF action = "click"
        THEN IF Lower(target) \in {"ok", "yes", "no", "cancel"}
             THEN Prim("click", "Clicked ")
             ELSE IF f # "none"
                  THEN Returned("Could not click " \o target, <<locate>>, f)
             ELSE IF ~env.located
                  THEN Returned("Could not find " \o target \o " on screen",
                                <<locate>>, "none")
             ELSE IF g # "none"
                  THEN Returned("Could not click " \o target, <<locate, "click:at">>, g)
             ELSE Returned("Clicked " \o target, <<locate, "click:at">>, "none")
        ELSE IF action = "type" THEN Prim("typewrite:" \o target, "Typed: ")
        ELSE IF action = "press" THEN Prim("press:" \o target, "Pressed: ")
        ELSE Returned("Unknown interaction: " \o action, << >>, "none")

\* a variant of the dispatch that looks the executor up by action tag and
\* faults on a tag it does not know
RunExecutorByLookup(t, env) ==
    IF t.action = "open_app"
    THEN [executor |-> "open_application",
          out |-> open_application(t.target, t.parameters, env)]
    ELSE IF t.action = "web_search"
    THEN [executor |-> "perform_web_search",
          out |-> perform_web_search(t.target, t.parameters, env)]
    ELSE IF t.action = "file_operation"
    THEN [executor |-> "perform_file_operation",
          out |-> perform_file_operation(t.target, t.parameters, env)]
    ELSE IF t.action = "system_control"
    THEN [executor |-> "perform_system_control",
          out |-> perform_system_control(t.target, t.parameters, env)]
    ELSE IF t.action \in {"click", "type", "press"}
    THEN [executor |-> "perform_interaction",
          out |-> perform_interaction(t.action, t.target, t.parameters, env)]
    ELSE [executor |-> "none",
          out |-> [result |-> None, calls |-> << >>, fault |-> "none",
                   raised |-> "KeyError"]]

\* the executor call of execute_task: which executor runs, and what it yields
RunExecutor(t, env) ==
    IF t.action = "open_app"
    THEN [executor |-> "open_application",
          out |-> open_application(t.target, t.parameters, env)]
    ELSE IF t.action = "web_search"
    THEN [executor |-> "perform_web_search",
          out |-> perform_web_search(t.target, t.parameters, env)]
    ELSE IF t.action = "file_operation"
    THEN [executor |-> "perform_file_operation",
          out |-> perform_file_operation(t.target, t.parameters, env)]
    ELSE IF t.action = "system_control"
    THEN [executor |-> "perform_system_control",
          out |-> perform_system_control(t.target, t.parameters, env)]
    ELSE IF t.action \in {"click", "type", "press"}
    THEN [executor |-> "perform_interaction",
          out |-> perform_interaction(t.action, t.target, t.parameters, env)]
    ELSE [executor |-> "none",
          out |-> Returned("Unknown action: " \o t.action, << >>, "none")]

\* the try/except of execute_task: the executor that ran, what it did, and the
\* one notification emitted (the status_updated emissions are not recorded)
execute_task(t, env) ==
    LET run == RunExecutor(t, env)
    IN  [executor |-> run.executor,
         calls |-> run.out.calls,
         fault |-> run.out.fault,
         raised |-> "none",
         signal |-> IF run.out.raised = "none"
                    THEN <<"task_completed", run.out.result>>
                    ELSE <<"error_occurred", "Error executing task: " \o run.out.raised>>]

(***************************************************************************)
(* The automation engine as a state machine.  process_request runs on the  *)
(* interactive (UI) thread; a background request hands execute_task to a   *)
(* new BackgroundTaskThread.  Every attribute write of the engine is one   *)
(* step, so that the two kinds of thread interleave as Python threads do.  *)
(***************************************************************************)
VARIABLES
    current_task,       \* AutomationEngine.current_task: a task or None
    is_running,         \* AutomationEngine.is_running
    background_thread,  \* index in threads of self.background_thread, 0: not set yet
    ui,                 \* the interactive thread: where it is in process_request
    threads,            \* the BackgroundTaskThreads started so far, in order
    requests,           \* the process_request calls so far, with what they emitted
    writers,            \* which kind of thread has written which engine field
    message,            \* the text handed to the parser or to the AI engine
    ai,                 \* AIEngine: configuration, backend flags
    last_call,          \* the last call made on the text, "none" before it
    intent,             \* what parse_intent / extract_action_target returned
    task,               \* what parse_automation_request returned
    dispatched,         \* what execute_task did with the task built from intent
    attempts,           \* the response backends attempted, in order, with outcome
    ai_signals,         \* the response_ready / error_occurred emissions of AIEngine
    response,           \* the string a responder called on the text returned
    environment,        \* what the machine does under the executor called directly
    workflows,          \* WorkflowWidget.workflows: the list of workflow dicts
    current_workflow,   \* index in workflows of self.current_workflow, 0: no attribute
    application         \* "running", or "aborted" by an exception no handler took

engineVars == <<current_task, is_running, background_thread, ui, threads, requests,
                writers>>
textVars == <<message, ai, last_call, intent, task, dispatched, attempts, ai_signals,
              response, environment>>
workflowVars == <<workflows, current_workflow, application>>
vars == <<engineVars, textVars, workflowVars>>

(***************************************************************************)
(* WorkflowDialog and WorkflowWidget.  A workflow is a Python dict: a      *)
(* function from its keys; None is None for a text and NoSchedule for a    *)
(* schedule dict.                                                          *)
(***************************************************************************)
NoSchedule == << >>

\* self.trigger_combo.addItems
Triggers == {"Manual", "Scheduled", "Hotkey"}

\* workflow_data.get(key, default)
DictGet(workflow_data, key, default) ==
    IF key \in DOMAIN workflow_data THEN workflow_data[key] ELSE default

\* WorkflowDialog.setup_ui: the form as it is built
setup_ui ==
    [name |-> "", description |-> "", trigger |-> "Manual", background |-> FALSE,
     time |-> "09:00", frequency |-> "Daily", hotkey |-> ""]

\* WorkflowDialog.load_workflow_data on the form setup_ui built; an empty
\* dict loads nothing, a trigger the combo box does not list is not selected
load_workflow_data(workflow_data) ==
    IF DOMAIN workflow_data = {} THEN setup_ui
    ELSE [setup_ui EXCEPT
            !.name = DictGet(workflow_data, "name", ""),
            !.description = DictGet(workflow_data, "description", ""),
            !.trigger = IF DictGet(workflow_data, "trigger", "Manual") \in Triggers
                        THEN DictGet(workflow_data, "trigger", "Manual") ELSE @,
            !.background = DictGet(workflow_data, "background", FALSE)]

\* WorkflowDialog.get_workflow_data
get_workflow_data(form) ==
    [name |-> form.name,
     description |-> form.description,
     trigger |-> form.trigger,
     background |-> form.background,
     schedule |-> IF form.trigger = "Scheduled"
                  THEN [time |-> form.time, frequency |-> form.frequency]
                  ELSE NoSchedule,
     hotkey |-> IF form.trigger = "Hotkey" THEN form.hotkey ELSE None]

\* dict.update: the keys of updated_data replace or extend those of workflow
Update(workflow, updated_data) == updated_data @@ workflow

\* WorkflowWidget.load_workflows: the two example workflows
load_workflows ==
    << [id |-> "1",
        name |-> "Open Browser and Search",
        description |-> "Opens Chrome and searches for the specified query",
        trigger |-> "Manual",
        background |-> FALSE,
        steps |-> << [action |-> "open_app", target |-> "chrome"],
                     [action |-> "web_search", target |-> "{query}"] >>],
       [id |-> "2",
        name |-> "Daily File Backup",
        description |-> "Creates a backup of important files",
        trigger |-> "Scheduled",
        background |-> TRUE,
        schedule |-> [time |-> "18:00", frequency |-> "Daily"],
        steps |-> << [action |-> "file_operation", target |-> "backup_folder",
                      operation |-> "create"],
                     [action |-> "copy_files", target |-> "important_files",
                      destination |-> "backup_folder"] >>] >>

\* WorkflowWidget.__init__
InitWorkflows ==
    /\ workflows = load_workflows
    /\ current_workflow = 0
    /\ application = "running"

\* the requests typed into the automation box of the chat widget
RequestTexts == {"open Chrome", "save file", "hello"}

IdleUi == [pc |-> "idle", req |-> 0, task |-> NoTask, raised |-> "none"]

\* AutomationEngine.__init__
InitEngine ==
    /\ current_task = NoTask
    /\ is_running = FALSE
    /\ background_thread = 0
    /\ ui = IdleUi
    /\ threads = << >>
    /\ requests = << >>
    /\ writers = [current_task |-> {}, is_running |-> {}]

NoText ==
    /\ message = None
    /\ ai = NoTask
    /\ last_call = "none"
    /\ intent = NoTask
    /\ task = NoTask
    /\ dispatched = NoTask
    /\ attempts = << >>
    /\ ai_signals = << >>
    /\ response = None
    /\ environment = NoTask

Init == InitEngine /\ NoText /\ InitWorkflows

NewRequest(request, background_mode) ==
    [text |-> request, background_mode |-> background_mode, signals |-> << >>,
     executor |-> "-", faulted |-> FALSE, returned |-> FALSE]

\* a variant of process_request that resets the engine's fields when the
\* request is not understood
ProcessRequestResetting(request, background_mode) ==
    /\ ui.pc = "idle"
    /\ Len(requests) < MaxRequests
    /\ LET t == parse_automation_request(request, background_mode)
           r == NewRequest(request, background_mode)
       IN  IF t # NoTask
           THEN /\ requests' = Append(requests, r)
                /\ ui' = [pc |-> "set_current_task", req |-> Len(requests) + 1,
                          task |-> t, raised |-> "none"]
                /\ UNCHANGED <<current_task, is_running>>
           ELSE /\ requests' = Append(requests,
                    [r EXCEPT !.signals = << <<"error_occurred",
                                  "Could not understand the automation request">> >>,
                              !.returned = TRUE])
                /\ ui' = ui
                /\ current_task' = NoTask
                /\ is_running' = FALSE
    /\ UNCHANGED <<background_thread, threads, writers, textVars, workflowVars>>

\* process_request up to the parse: an unparsed request is answered at once
ProcessRequest(request, background_mode) ==
    /\ ui.pc = "idle"
    /\ Len(requests) < MaxRequests
    /\ LET t == parse_automation_request(request, background_mode)
           r == NewRequest(request, background_mode)
       IN  IF t # NoTask
           THEN /\ requests' = Append(requests, r)
                /\ ui' = [pc |-> "set_current_task", req |-> Len(requests) + 1,
                          task |-> t, raised |-> "none"]
           ELSE /\ requests' = Append(requests,
                    [r EXCEPT !.signals = << <<"error_occurred",
                                  "Could not understand the automation request">> >>,
                              !.returned = TRUE])
                /\ ui' = ui
    /\ UNCHANGED <<current_task, is_running, background_thread, threads, writers, textVars, workflowVars>>

\* self.current_task = task
SetCurrentTask ==
    /\ ui.pc = "set_current_task"
    /\ current_task' = ui.task
    /\ writers' = [writers EXCEPT !.current_task = @ \cup {"interactive"}]
    /\ ui' = [ui EXCEPT !.pc = "set_is_running"]
    /\ UNCHANGED <<is_running, background_thread, threads, requests, textVars, workflowVars>>

\* self.is_running = True
SetIsRunning ==
    /\ ui.pc = "set_is_running"
    /\ is_running' = TRUE
    /\ writers' = [writers EXCEPT !.is_running = @ \cup {"interactive"}]
    /\ ui' = [ui EXCEPT !.pc = "dispatch"]
    /\ UNCHANGED <<current_task, background_thread, threads, requests, textVars, workflowVars>>

\* execute_background_task: a new thread is made self.background_thread and
\* started, and process_request returns
ExecuteBackgroundTask ==
    /\ ui.pc = "dispatch"
    /\ ui.task.background_mode
    /\ threads' = Append(threads, [req |-> ui.req, task |-> ui.task, pc |-> "exec",
                                   running |-> TRUE, raised |-> "none"])
    /\ background_thread' = Len(threads) + 1
    /\ requests' = [requests EXCEPT ![ui.req].returned = TRUE]
    /\ ui' = IdleUi
    /\ UNCHANGED <<current_task, is_running, writers, textVars, workflowVars>>

\* the foreground branch: execute_task is entered on the interactive thread
ExecuteForeground ==
    /\ ui.pc = "dispatch"
    /\ ~ui.task.background_mode
    /\ ui' = [ui EXCEPT !.pc = "exec"]
    /\ UNCHANGED <<current_task, is_running, background_thread, threads, requests,
                   writers, textVars, workflowVars>>

\* everything execute_task can do with task t, over all environments
Outcomes(t) == {execute_task(t, env) : env \in Envs}

\* a variant of the emission in which a result that reports a fault is dropped
ExecutedQuietOnFault(r, done) ==
    [r EXCEPT !.signals = IF done.raised = "none" /\ done.fault = "none"
                          THEN Append(@, done.signal) ELSE @,
              !.executor = done.executor,
              !.faulted = (done.fault # "none")]

\* what a run of execute_task's try block leaves in the request's record
Executed(r, done) ==
    [r EXCEPT !.signals = IF done.raised = "none" THEN Append(@, done.signal) ELSE @,
              !.executor = done.executor,
              !.faulted = (done.fault # "none")]

\* a fault that leaves execute_task is reported by its caller: process_request,
\* or BackgroundTaskThread.run through the engine's error_occurred
Reported(r, raised, prefix) ==
    IF raised = "none" THEN r
    ELSE [r EXCEPT !.signals = Append(@, <<"error_occurred", prefix \o raised>>)]

\* execute_task on the interactive thread: the executor returns, the result
\* is emitted
ExecutorReturnsUi ==
    /\ ui.pc = "exec"
    /\ \E done \in Outcomes(ui.task) :
         /\ requests' = [requests EXCEPT ![ui.req] = Executed(@, done)]
         /\ ui' = [ui EXCEPT !.pc = "finally_is_running", !.raised = done.raised]
    /\ UNCHANGED <<current_task, is_running, background_thread, threads, writers, textVars, workflowVars>>

\* finally: self.is_running = False
FinallyIsRunningUi ==
    /\ ui.pc = "finally_is_running"
    /\ is_running' = FALSE
    /\ writers' = [writers EXCEPT !.is_running = @ \cup {"interactive"}]
    /\ ui' = [ui EXCEPT !.pc = "finally_current_task"]
    /\ UNCHANGED <<current_task, background_thread, threads, requests, textVars, workflowVars>>

\* finally: self.current_task = None, and process_request returns
FinallyCurrentTaskUi ==
    /\ ui.pc = "finally_current_task"
    /\ current_task' = NoTask
    /\ writers' = [writers EXCEPT !.current_task = @ \cup {"interactive"}]
    /\ requests' = [requests EXCEPT ![ui.req] =
                      [Reported(@, ui.raised, "Error processing automation request: ")
                         EXCEPT !.returned = TRUE]]
    /\ ui' = IdleUi
    /\ UNCHANGED <<is_running, background_thread, threads, textVars, workflowVars>>

\* a variant of the thread's run that gives up once the thread was stopped
ExecutorReturnsBgUnlessStopped(k) ==
    /\ threads[k].pc = "exec"
    /\ threads[k].running
    /\ \E done \in Outcomes(threads[k].task) :
         /\ requests' = [requests EXCEPT ![threads[k].req] = Executed(@, done)]
         /\ threads' = [threads EXCEPT ![k].pc = "finally_is_running",
                                       ![k].raised = done.raised]
    /\ UNCHANGED <<current_task, is_running, background_thread, ui, writers, textVars, workflowVars>>

\* BackgroundTaskThread.run: execute_task on thread k
ExecutorReturnsBg(k) ==
    /\ threads[k].pc = "exec"
    /\ \E done \in Outcomes(threads[k].task) :
         /\ requests' = [requests EXCEPT ![threads[k].req] = Executed(@, done)]
         /\ threads' = [threads EXCEPT ![k].pc = "finally_is_running",
                                       ![k].raised = done.raised]
    /\ UNCHANGED <<current_task, is_running, background_thread, ui, writers, textVars, workflowVars>>

FinallyIsRunningBg(k) ==
    /\ threads[k].pc = "finally_is_running"
    /\ is_running' = FALSE
    /\ writers' = [writers EXCEPT !.is_running = @ \cup {"background"}]
    /\ threads' = [threads EXCEPT ![k].pc = "finally_current_task"]
    /\ UNCHANGED <<current_task, background_thread, ui, requests, textVars, workflowVars>>

\* a variant of the thread's last step that leaves current_task as it is
FinallyCurrentTaskBgKeeping(k) ==
    /\ threads[k].pc = "finally_current_task"
    /\ requests' = [requests EXCEPT ![threads[k].req] =
                      Reported(@, threads[k].raised, "")]
    /\ threads' = [threads EXCEPT ![k].pc = "finished"]
    /\ UNCHANGED <<current_task, is_running, background_thread, ui, writers, textVars, workflowVars>>

\* finally: self.current_task = None on thread k, and run returns
FinallyCurrentTaskBg(k) ==
    /\ threads[k].pc = "finally_current_task"
    /\ current_task' = NoTask
    /\ writers' = [writers EXCEPT !.current_task = @ \cup {"background"}]
    /\ requests' = [requests EXCEPT ![threads[k].req] =
                      Reported(@, threads[k].raised, "")]
    /\ threads' = [threads EXCEPT ![k].pc = "finished"]
    /\ UNCHANGED <<is_running, background_thread, ui, textVars, workflowVars>>

\* AutomationEngine.stop, called between requests
Stop ==
    /\ ui.pc = "idle"
    /\ is_running' = FALSE
    /\ writers' = [writers EXCEPT !.is_running = @ \cup {"interactive"}]
    /\ threads' = IF background_thread # 0
                  THEN [threads EXCEPT ![background_thread].running = FALSE]
                  ELSE threads
    /\ UNCHANGED <<current_task, background_thread, ui, requests, textVars, workflowVars>>

Next ==
    \/ \E request \in RequestTexts, background_mode \in BOOLEAN :
          ProcessRequest(request, background_mode)
    \/ SetCurrentTask
    \/ SetIsRunning
    \/ ExecuteBackgroundTask
    \/ ExecuteForeground
    \/ ExecutorReturnsUi
    \/ FinallyIsRunningUi
    \/ FinallyCurrentTaskUi
    \/ \E k \in 1..Len(threads) : ExecutorReturnsBg(k)
    \/ \E k \in 1..Len(threads) : FinallyIsRunningBg(k)
    \/ \E k \in 1..Len(threads) : FinallyCurrentTaskBg(k)
    \/ Stop

Spec == Init /\ [][Next]_vars

\* the next step of background thread k, if it was started
RunBg(k) ==
    /\ k \in 1..Len(threads)
    /\ ExecutorReturnsBg(k) \/ FinallyIsRunningBg(k) \/ FinallyCurrentTaskBg(k)

\* the requests typed while a stopped background thread is followed
LiveRequestTexts == RequestTexts \cup {"search for Chrome", "volume up"}

\* the engine's steps while at most MaxLiveRequests requests are made
NextLive ==
    \/ \E request \in LiveRequestTexts, background_mode \in BOOLEAN :
          /\ Len(requests) < MaxLiveRequests
          /\ ProcessRequest(request, background_mode)
    \/ SetCurrentTask
    \/ SetIsRunning
    \/ ExecuteBackgroundTask
    \/ ExecuteForeground
    \/ ExecutorReturnsUi
    \/ FinallyIsRunningUi
    \/ FinallyCurrentTaskUi
    \/ \E k \in 1..Len(threads) : ExecutorReturnsBg(k)
    \/ \E k \in 1..Len(threads) : FinallyIsRunningBg(k)
    \/ \E k \in 1..Len(threads) : FinallyCurrentTaskBg(k)
    \/ Stop

\* a started QThread is scheduled until its run returns
SpecLive ==
    /\ Init
    /\ [][NextLive]_vars
    /\ \A k \in 1..MaxLiveRequests : WF_vars(RunBg(k))

\* the next step of process_request on the interactive thread
RunUi ==
    \/ SetCurrentTask
    \/ SetIsRunning
    \/ ExecuteBackgroundTask
    \/ ExecuteForeground
    \/ ExecutorReturnsUi
    \/ FinallyIsRunningUi
    \/ FinallyCurrentTaskUi

\* every executor call returns, the interactive thread runs process_request
\* to its end, and every started background thread is scheduled
SpecFair ==
    /\ Init
    /\ [][NextLive]_vars
    /\ WF_vars(RunUi)
    /\ \A k \in 1..MaxLiveRequests : WF_vars(RunBg(k))

(***************************************************************************)
(* execute_task on an open_app task, for application names of each kind    *)
(* of the three tables and every environment.                              *)
(***************************************************************************)
\* names: in the path table, an alias, a mapping to an application with a
\* path, a mapping to one without, an alias that is a mapping as well, a
\* mapped name that is in no table, an unknown name, a name with a capital
AppNames ==
    {"chrome", "browser", "google chrome", "vscode", "calc", "code", "notes", "Chrome"}

InitApp ==
    /\ InitEngine
    /\ InitWorkflows
    /\ message = None
    /\ ai = NoTask
    /\ last_call = "none"
    /\ intent = NoTask
    /\ task \in {[action |-> "open_app", target |-> app_name,
                  parameters |-> [app_name |-> app_name],
                  background_mode |-> FALSE] : app_name \in AppNames}
    /\ dispatched = NoTask
    /\ attempts = << >>
    /\ ai_signals = << >>
    /\ response = None
    /\ environment \in Envs

\* self.execute_task(task) on the open_app task, on the machine of environment
ExecuteOpenApp ==
    /\ last_call = "none"
    /\ last_call' = "execute_task"
    /\ dispatched' = execute_task(task, environment)
    /\ response' = open_application(task.target, task.parameters, environment).result
    /\ UNCHANGED <<engineVars, message, ai, intent, task, attempts, ai_signals,
                   environment, workflowVars>>

NextApp == ExecuteOpenApp

SpecApp == InitApp /\ [][NextApp]_vars

(***************************************************************************)
(* execute_task on a system_control task, for every control type and value *)
(* the parser can set and some it cannot, on every environment.            *)
(***************************************************************************)
ControlTypes == {"volume", "brightness", "wifi", "bluetooth", "unknown", "screen"}

ControlValues == {"up", "down", "on", "off", "mute", None}

\* the parameters of a system_control task, with and without a value key
ControlParameters(control_type) ==
    {[control_type |-> control_type, value |-> v] : v \in ControlValues}
        \cup {[control_type |-> control_type]}

InitControl ==
    /\ InitEngine
    /\ InitWorkflows
    /\ message = None
    /\ ai = NoTask
    /\ last_call = "none"
    /\ intent = NoTask
    /\ \E control_type \in ControlTypes :
         task \in {[action |-> "system_control", target |-> control_type,
                    parameters |-> ps, background_mode |-> FALSE] :
                   ps \in ControlParameters(control_type)}
    /\ dispatched = NoTask
    /\ attempts = << >>
    /\ ai_signals = << >>
    /\ response = None
    /\ environment \in Envs

\* self.execute_task(task) on the system_control task
ExecuteSystemControl ==
    /\ last_call = "none"
    /\ last_call' = "execute_task"
    /\ dispatched' = execute_task(task, environment)
    /\ response' = perform_system_control(task.target, task.parameters, environment).result
    /\ UNCHANGED <<engineVars, message, ai, intent, task, attempts, ai_signals,
                   environment, workflowVars>>

NextControl == ExecuteSystemControl

SpecControl == InitControl /\ [][NextControl]_vars

(***************************************************************************)
(* The workflow list under the buttons of the WorkflowWidget.              *)
(***************************************************************************)
\* what the user leaves in the dialog of a new workflow: a name, a trigger,
\* and a hotkey when the trigger asks for one
NewForms ==
    {[setup_ui EXCEPT !.name = "New", !.trigger = trigger,
                      !.hotkey = IF trigger = "Hotkey" THEN "Ctrl+Shift+A" ELSE ""] :
        trigger \in Triggers}

\* on_workflow_selected: the item of workflows[k] is clicked
OnWorkflowSelected(k) ==
    /\ application = "running"
    /\ k \in 1..Len(workflows)
    /\ current_workflow' = k
    /\ last_call' = "on_workflow_selected"
    /\ UNCHANGED <<engineVars, message, ai, intent, task, dispatched, attempts,
                   ai_signals, response, environment, workflows, application>>

\* create_new_workflow: the dialog is accepted with form, or cancelled
CreateNewWorkflow(accepted, form) ==
    /\ application = "running"
    /\ Len(workflows) < MaxWorkflows
    /\ IF accepted
       THEN /\ workflows' = Append(workflows,
                               Update(get_workflow_data(form),
                                      [id |-> ToString(Len(workflows) + 1),
                                       steps |-> << >>]))
            /\ last_call' = "create_new_workflow"
       ELSE /\ workflows' = workflows
            /\ last_call' = "create_new_workflow cancelled"
    /\ UNCHANGED <<engineVars, message, ai, intent, task, dispatched, attempts,
                   ai_signals, response, environment, current_workflow, application>>

\* edit_workflow: the dialog opened on the current workflow is accepted as it
\* was loaded or with a new name, or cancelled
EditWorkflow(accepted, renamed) ==
    /\ application = "running"
    /\ current_workflow # 0
    /\ LET loaded == load_workflow_data(workflows[current_workflow])
           form == IF renamed THEN [loaded EXCEPT !.name = "Renamed"] ELSE loaded
       IN  IF accepted
           THEN /\ workflows' = [workflows EXCEPT
                                   ![current_workflow] = Update(@, get_workflow_data(form))]
                /\ last_call' = IF renamed THEN "edit_workflow renamed"
                                ELSE "edit_workflow"
           ELSE /\ workflows' = workflows
                /\ last_call' = "edit_workflow cancelled"
    /\ UNCHANGED <<engineVars, message, ai, intent, task, dispatched, attempts,
                   ai_signals, response, environment, current_workflow, application>>

\* the workflows that stay when the one of index k is deleted by its id
Kept(k) ==
    LET Stays(w) == w["id"] # workflows[k]["id"]
    IN  SelectSeq(workflows, Stays)

\* delete_workflow: after Yes the list is filtered by id and the attribute
\* current_workflow is deleted; the log line that follows reads it and raises
\* AttributeError, which no handler takes: the application is aborted, or
\* lives on where an excepthook reports the exception
DeleteWorkflow(reply) ==
    /\ application = "running"
    /\ current_workflow # 0
    /\ IF reply = "Yes"
       THEN /\ workflows' = Kept(current_workflow)
            /\ current_workflow' = 0
            /\ application' \in {"running", "aborted"}
            /\ last_call' = "delete_workflow"
       ELSE /\ UNCHANGED workflowVars
            /\ last_call' = "delete_workflow declined"
    /\ UNCHANGED <<engineVars, message, ai, intent, task, dispatched, attempts,
                   ai_signals, response, environment>>

InitWorkflow == InitEngine /\ NoText /\ InitWorkflows

NextWorkflow ==
    \/ \E k \in 1..MaxWorkflows : OnWorkflowSelected(k)
    \/ \E accepted \in BOOLEAN, form \in NewForms : CreateNewWorkflow(accepted, form)
    \/ \E accepted \in BOOLEAN, renamed \in BOOLEAN : EditWorkflow(accepted, renamed)
    \/ \E reply \in {"Yes", "No"} : DeleteWorkflow(reply)

SpecWorkflow == InitWorkflow /\ [][NextWorkflow]_vars

(***************************************************************************)
(* The parsers and the dispatcher applied to every text of Texts.          *)
(***************************************************************************)
InitParse ==
    /\ InitEngine
    /\ InitWorkflows
    /\ message \in Texts
    /\ ai = NoTask
    /\ last_call = "none"
    /\ intent = NoTask
    /\ task = NoTask
    /\ dispatched = NoTask
    /\ attempts = << >>
    /\ ai_signals = << >>
    /\ response = None
    /\ environment = NoTask

\* intent = self.parse_intent(message)
ParseIntent ==
    /\ last_call = "none"
    /\ last_call' = "parse_intent"
    /\ intent' = parse_intent(message)
    /\ UNCHANGED <<engineVars, message, ai, task, dispatched, attempts, ai_signals,
                   response, environment, workflowVars>>

\* a variant of the parse call that keeps the parsed task in self.current_task
ParseAutomationRequestKeeping(background_mode) ==
    /\ last_call = "none"
    /\ last_call' = "parse_automation_request"
    /\ task' = parse_automation_request(message, background_mode)
    /\ current_task' = task'
    /\ UNCHANGED <<is_running, background_thread, ui, threads, requests, writers,
                   message, ai, intent, dispatched, attempts, ai_signals,
                   response, environment, workflowVars>>

\* task = self.parse_automation_request(request, background_mode)
ParseAutomationRequest(background_mode) ==
    /\ last_call = "none"
    /\ last_call' = "parse_automation_request"
    /\ task' = parse_automation_request(message, background_mode)
    /\ UNCHANGED <<engineVars, message, ai, intent, dispatched, attempts, ai_signals,
                   response, environment, workflowVars>>

\* self.execute_task(task), for the task the parser returned
ExecuteParsedTask ==
    /\ last_call = "parse_automation_request"
    /\ task # NoTask
    /\ last_call' = "execute_task"
    /\ dispatched' \in Outcomes(task)
    /\ UNCHANGED <<engineVars, message, ai, intent, task, attempts, ai_signals,
                   response, environment, workflowVars>>

\* AutomationTask(action, target, parameters) with the fields of a TaskIntent
TaskOfIntent(i) ==
    [action |-> i.action, target |-> i.target, parameters |-> i.parameters,
     background_mode |-> FALSE]

\* execute_task on the task that carries the intent's action tag and target
ExecuteIntentTask ==
    /\ last_call = "parse_intent"
    /\ last_call' = "execute_task"
    /\ task' = TaskOfIntent(intent)
    /\ dispatched' \in Outcomes(TaskOfIntent(intent))
    /\ UNCHANGED <<engineVars, message, ai, intent, attempts, ai_signals,
                   response, environment, workflowVars>>

NextParse ==
    \/ ParseIntent
    \/ \E background_mode \in BOOLEAN : ParseAutomationRequest(background_mode)
    \/ ExecuteParsedTask
    \/ ExecuteIntentTask

SpecParse == InitParse /\ [][NextParse]_vars

\* the two parsers alone, applied to every text of Texts
NextText ==
    \/ ParseIntent
    \/ \E background_mode \in BOOLEAN : ParseAutomationRequest(background_mode)

SpecText == InitParse /\ [][NextText]_vars

(***************************************************************************)
(* Each parser called twice on the same text, on an idle engine and on an  *)
(* engine with a background task in flight.                                *)
(***************************************************************************)
\* the engine after process_request("open Chrome", True) has returned and
\* before its thread has run the executor
BusyEngine ==
    LET t == parse_automation_request("open Chrome", TRUE)
    IN  /\ current_task = t
        /\ is_running = TRUE
        /\ background_thread = 1
        /\ ui = IdleUi
        /\ threads = << [req |-> 1, task |-> t, pc |-> "exec", running |-> TRUE,
                         raised |-> "none"] >>
        /\ requests = << [NewRequest("open Chrome", TRUE) EXCEPT !.returned = TRUE] >>
        /\ writers = [current_task |-> {"interactive"}, is_running |-> {"interactive"}]

InitTwice ==
    /\ InitEngine \/ BusyEngine
    /\ InitWorkflows
    /\ message \in TextsUpTo(MaxTwiceWords)
    /\ ai = NoTask
    /\ last_call = "none"
    /\ intent = NoTask
    /\ task = NoTask
    /\ dispatched = NoTask
    /\ attempts = << >>
    /\ ai_signals = << >>
    /\ response = None
    /\ environment = NoTask

\* a second self.parse_intent(message) on the same text
ParseIntentAgain ==
    /\ last_call = "parse_intent"
    /\ last_call' = "parse_intent again"
    /\ intent' = parse_intent(message)
    /\ UNCHANGED <<engineVars, message, ai, task, dispatched, attempts, ai_signals,
                   response, environment, workflowVars>>

\* a second self.parse_automation_request(request, background_mode) on the same
\* text, with the same flag
ParseAutomationRequestAgain(background_mode) ==
    /\ last_call = "parse_automation_request"
    /\ task # NoTask => background_mode = task.background_mode
    /\ last_call' = "parse_automation_request again"
    /\ task' = parse_automation_request(message, background_mode)
    /\ UNCHANGED <<engineVars, message, ai, intent, dispatched, attempts, ai_signals,
                   response, environment, workflowVars>>

NextTwice ==
    \/ ParseIntent
    \/ ParseIntentAgain
    \/ \E background_mode \in BOOLEAN : ParseAutomationRequest(background_mode)
    \/ \E background_mode \in BOOLEAN : ParseAutomationRequestAgain(background_mode)

SpecTwice == InitTwice /\ [][NextTwice]_vars

(***************************************************************************)
(* AIEngine: the per-message pipeline and the response backend chain.      *)
(***************************************************************************)
\* AIEngine.setup_ai_models: the backend flags for the keys of the loaded
\* configuration; a fault while configuring Gemini clears both flags
setup_ai_models(api_key, gemini_api_key, GEMINI_AVAILABLE, fault) ==
    IF GEMINI_AVAILABLE /\ gemini_api_key # None /\ fault
    THEN [api_key |-> api_key, gemini_api_key |-> gemini_api_key,
          use_openai |-> FALSE, use_gemini |-> FALSE]
    ELSE [api_key |-> api_key, gemini_api_key |-> gemini_api_key,
          use_openai |-> api_key # None,
          use_gemini |-> GEMINI_AVAILABLE /\ gemini_api_key # None]

\* a variant of generate_local_response that has nothing to say to a blank text
generate_local_response_silent(msg) ==
    LET message_lower == Lower(msg)
    IN  IF Strip(msg) = "" THEN ""
        ELSE IF AnyIn(<<"hello", "hi", "hey">>, message_lower)
        THEN "Hello! I'm your Windows AI Assistant. How can I help you today?"
        ELSE "I understand you're asking about that. Let me help you with that task or question!"

\* AIEngine.generate_local_response
generate_local_response(msg) ==
    LET message_lower == Lower(msg)
    IN  IF AnyIn(<<"hello", "hi", "hey">>, message_lower)
        THEN "Hello! I'm your Windows AI Assistant. How can I help you today?"
        ELSE IF AnyIn(<<"help", "what can you do">>, message_lower)
        THEN "I can help you with: ... Just tell me what you'd like to do!"
        ELSE IF AnyIn(<<"open", "launch", "start">>, message_lower)
        THEN "I can help you open applications and files. Just tell me what you'd like to open!"
        ELSE IF AnyIn(<<"search", "find", "google">>, message_lower)
        THEN "I can help you search the web or find files on your computer. What are you looking for?"
        ELSE "I understand you're asking about that. Let me help you with that task or question!"

Local(msg) == <<"local", "ok">>

\* AIEngine.generate_gemini_response; gemini: "ok" or "fault", what the API does
generate_gemini_response(msg, gemini) ==
    IF gemini = "ok"
    THEN [response |-> "<Gemini reply>", attempts |-> << <<"gemini", "ok">> >>]
    ELSE [response |-> generate_local_response(msg),
          attempts |-> << <<"gemini", "fault">>, Local(msg) >>]

\* AIEngine.generate_openai_response
generate_openai_response(msg, openai) ==
    IF openai = "ok"
    THEN [response |-> "<OpenAI reply>", attempts |-> << <<"openai", "ok">> >>]
    ELSE [response |-> generate_local_response(msg),
          attempts |-> << <<"openai", "fault">>, Local(msg) >>]

\* AIEngine.generate_chat_response
generate_chat_response(msg, engine, gemini, openai) ==
    IF engine.use_gemini /\ engine.gemini_api_key # None
    THEN generate_gemini_response(msg, gemini)
    ELSE IF engine.use_openai /\ engine.api_key # None
    THEN generate_openai_response(msg, openai)
    ELSE [response |-> generate_local_response(msg), attempts |-> << Local(msg) >>]

\* intent.confidence > 0.3
ConfidenceAbove03(confidence) == 10 * confidence.num > 3 * confidence.den

\* AIEngine.handle_automation_intent
handle_automation_intent(msg, i) ==
    IF ConfidenceAbove03(i.confidence)
    THEN "I'll help you with that automation task: " \o i.action \o " " \o i.target
         \o ". Processing this request through the automation engine..."
    ELSE "I'm not sure what automation you'd like me to perform. "
         \o "Could you be more specific about what you want me to do?"

\* AIEngine.handle_workflow_intent
handle_workflow_intent(msg, i) ==
    "I'll help you with workflow management: " \o i.action \o " " \o i.target
    \o ". Processing this through the workflow system..."

\* a variant of process_message that chats when no keyword was hit
process_message_chatting(msg, i, engine, gemini, openai) ==
    LET chat == generate_chat_response(msg, engine, gemini, openai)
    IN  IF i.task_type = "automation" /\ i.confidence.num > 0
        THEN [intent |-> i, branch |-> "automation", attempts |-> << >>,
              response |-> handle_automation_intent(msg, i)]
        ELSE IF i.task_type = "information"
        THEN [intent |-> i, branch |-> "information", attempts |-> chat.attempts,
              response |-> chat.response]
        ELSE IF i.task_type = "workflow"
        THEN [intent |-> i, branch |-> "workflow", attempts |-> << >>,
              response |-> handle_workflow_intent(msg, i)]
        ELSE [intent |-> i, branch |-> "chat", attempts |-> chat.attempts,
              response |-> chat.response]

\* the try block of process_message once parse_intent has returned i: the
\* branch taken and the reply
process_message(msg, i, engine, gemini, openai) ==
    LET chat == generate_chat_response(msg, engine, gemini, openai)
    IN  IF i.task_type = "automation"
        THEN [intent |-> i, branch |-> "automation", attempts |-> << >>,
              response |-> handle_automation_intent(msg, i)]
        ELSE IF i.task_type = "information"
        THEN [intent |-> i, branch |-> "information", attempts |-> chat.attempts,
              response |-> chat.response]
        ELSE IF i.task_type = "workflow"
        THEN [intent |-> i, branch |-> "workflow", attempts |-> << >>,
              response |-> handle_workflow_intent(msg, i)]
        ELSE [intent |-> i, branch |-> "chat", attempts |-> chat.attempts,
              response |-> chat.response]

\* the messages typed into the chat box
ChatVocabulary ==
    {"", "hello", "what", "open", "search", "save", "help", "Chrome", "show"}

ChatTexts ==
    UNION {{Join(ws, " ") : ws \in [1..k -> ChatVocabulary]} : k \in 0..MaxChatWords}

Keys == {None, "key"}

InitChat ==
    /\ InitEngine
    /\ InitWorkflows
    /\ message \in ChatTexts
    /\ \E api_key \in Keys, gemini_api_key \in Keys, available \in BOOLEAN,
          fault \in BOOLEAN :
         ai = setup_ai_models(api_key, gemini_api_key, available, fault)
    /\ last_call = "none"
    /\ intent = NoTask
    /\ task = NoTask
    /\ dispatched = NoTask
    /\ attempts = << >>
    /\ ai_signals = << >>
    /\ response = None
    /\ environment = NoTask

\* x or None, for the text of a line edit
OrNone(text) == IF text = "" THEN None ELSE text

\* SettingsWidget.save_settings: the keys of the shared AI configuration
SaveSettings(provider, text) ==
    /\ last_call = "none"
    /\ ai' = IF provider = "OpenAI"
             THEN [ai EXCEPT !.api_key = OrNone(text), !.gemini_api_key = None]
             ELSE IF provider = "Gemini"
             THEN [ai EXCEPT !.gemini_api_key = OrNone(text), !.api_key = None]
             ELSE [ai EXCEPT !.api_key = None, !.gemini_api_key = None]
    /\ UNCHANGED <<engineVars, message, last_call, intent, task, dispatched, attempts,
                   ai_signals, response, environment, workflowVars>>

\* a variant of the emissions that announces a response after a fault as well
EmittedAnyway(raised, reply) ==
    IF raised = "none" THEN << <<"response_ready", reply>> >>
    ELSE << <<"error_occurred", "Error processing message: " \o raised>>,
            <<"response_ready", reply>> >>

\* what process_message emits: response_ready at the end of its try block,
\* error_occurred from its except branch when str(e) is raised
Emitted(raised, reply) ==
    IF raised = "none" THEN << <<"response_ready", reply>> >>
    ELSE << <<"error_occurred", "Error processing message: " \o raised>> >>

\* AIEngine.process_message, whatever the remote backends do
ProcessMessage ==
    /\ last_call = "none"
    /\ last_call' = "process_message"
    /\ intent' = parse_intent(message)
    /\ \E gemini \in {"ok", "fault"}, openai \in {"ok", "fault"} :
         LET done == process_message(message, intent', ai, gemini, openai)
         IN  /\ attempts' = done.attempts
             /\ ai_signals' = Emitted("none", done.response)
    /\ UNCHANGED <<engineVars, message, ai, task, dispatched, response, environment, workflowVars>>

\* AIEngine.process_message called with None instead of a text (the str of
\* its signature is not enforced): parse_intent raises on message.lower()
ProcessMessageNoText ==
    /\ last_call = "none"
    /\ last_call' = "process_message(None)"
    /\ ai_signals' = Emitted("'NoneType' object has no attribute 'lower'", None)
    /\ UNCHANGED <<engineVars, message, ai, intent, task, dispatched, attempts,
                   response, environment, workflowVars>>

\* AIEngine.generate_chat_response called on the text, whatever the remote
\* backends do
GenerateChatResponse ==
    /\ last_call = "none"
    /\ last_call' = "generate_chat_response"
    /\ \E gemini \in {"ok", "fault"}, openai \in {"ok", "fault"} :
         LET done == generate_chat_response(message, ai, gemini, openai)
         IN  /\ attempts' = done.attempts
             /\ response' = done.response
    /\ UNCHANGED <<engineVars, message, ai, intent, task, dispatched, ai_signals,
                   environment, workflowVars>>

NextChat ==
    \/ \E provider \in {"OpenAI", "Gemini", "Local Models"}, text \in {"", "key"} :
          SaveSettings(provider, text)
    \/ ProcessMessage
    \/ ProcessMessageNoText
    \/ GenerateChatResponse

SpecChat == InitChat /\ [][NextChat]_vars

(***************************************************************************)
(* Properties.  Each is stated over the variables of the specification it  *)
(* is checked under: Spec (the engine), SpecParse (the parsers and the     *)
(* dispatcher on every text of Texts), SpecChat (the message pipeline).    *)
(***************************************************************************)
\* the action tags execute_task has a branch for
KnownActions ==
    {"open_app", "web_search", "file_operation", "system_control",
     "click", "type", "press"}

Tried(backend) == \E k \in 1..Len(attempts) : attempts[k][1] = backend
Failed(backend) == \E k \in 1..Len(attempts) : attempts[k] = <<backend, "fault">>
Configured(backend) ==
    IF backend = "gemini" THEN ai.use_gemini /\ ai.gemini_api_key # None
    ELSE ai.use_openai /\ ai.api_key # None

\* C1: the response backends are attempted in the order Gemini, OpenAI, local:
\* a lower tier is attempted only when every higher tier is unconfigured or
\* has faulted, and when Gemini faults while OpenAI is configured, OpenAI is
\* attempted before the local responder.
C1_BackendChainInOrder ==
    (last_call = "process_message" /\ attempts # << >>) =>
        /\ Tried("openai") => (~Configured("gemini") \/ Failed("gemini"))
        /\ Tried("local") => /\ ~Configured("gemini") \/ Failed("gemini")
                             /\ ~Configured("openai") \/ Failed("openai")
        /\ (Failed("gemini") /\ Configured("openai")) =>
              \E j, k \in 1..Len(attempts) :
                  /\ attempts[j][1] = "openai"
                  /\ attempts[k][1] = "local"
                  /\ j < k

\* the background threads that were started and have not run to their end
InFlight == {k \in 1..Len(threads) : threads[k].pc # "finished"}

\* C2: whatever the sequence of process_request calls with background_mode
\* set, at most one background task is started and not yet completed.
C2_AtMostOneBackgroundInFlight == Cardinality(InFlight) <= 1

\* C3: no engine field is written by both the interactive path and the
\* background lane: current_task and is_running are never written from a
\* background thread when the interactive path writes them too.
C3_NoFieldWrittenByBothLanes ==
    \A f \in {"current_task", "is_running"} :
        ~({"interactive", "background"} \subseteq writers[f])

\* process_request call r is over: it has returned and, when it started a
\* background thread, that thread has run to its end
Over(r) ==
    /\ requests[r].returned
    /\ \A k \in 1..Len(threads) : threads[k].req = r => threads[k].pc = "finished"

\* C4: every process_request call, foreground or background, parsed or not,
\* with or without a fault in the executor, emits exactly one result
\* notification among task_completed and error_occurred: never two, and one
\* once the call is over.
C4_ExactlyOneResultNotification ==
    \A r \in 1..Len(requests) :
        /\ Len(requests[r].signals) <= 1
        /\ \A k \in 1..Len(requests[r].signals) :
              requests[r].signals[k][1] \in {"task_completed", "error_occurred"}
        /\ Over(r) => Len(requests[r].signals) = 1

\* a background call whose executor met a fault is over, with its one emission
C4_Witness ==
    \E r \in 1..Len(requests) :
        /\ requests[r].background_mode
        /\ requests[r].faulted
        /\ Over(r)
        /\ Len(requests[r].signals) = 1

\* the words parse_automation_request looks for in the lower-cased request
RoutingKeywords ==
    {"open", "launch", "start", "search", "google", "find", "file", "folder",
     "document", "volume", "brightness", "wifi", "bluetooth", "click", "type", "press"}

HasRoutingKeyword(s) == \E w \in RoutingKeywords : Contains(Lower(s), w)

\* C5 as stated: parse_automation_request returns a Task for every text,
\* never an absent result, and so does the intent parser.
C5_ParseAlwaysReturnsTask ==
    /\ last_call = "parse_automation_request" => task # NoTask
    /\ last_call = "parse_intent" => intent # NoTask

\* C5: parse_automation_request returns a Task exactly for the texts whose
\* lower-cased form contains a routing keyword and the absent result None for
\* every other text; the intent parser returns an intent for every text.
C5_TaskExactlyWhenRoutingKeyword ==
    /\ last_call = "parse_automation_request" =>
          (task # NoTask <=> HasRoutingKeyword(message))
    /\ last_call = "parse_intent" => intent # NoTask

\* a text of two words or more for which the request parser returned None
C5_Witness ==
    /\ last_call = "parse_automation_request"
    /\ task = NoTask
    /\ Len(Split(message)) >= 2

\* the patterns of template t that are found in the lower-cased text
Found(t, lower) ==
    {p \in 1..Len(task_templates[t].patterns) :
        Search(task_templates[t].patterns[p], lower).ok}

\* the templates of which some pattern is found in the lower-cased text
Matching(lower) == {t \in 1..Len(task_templates) : Found(t, lower) # {}}

TemplateActions == {"open_app", "web_search", "file_operation", "system_control"}

\* C6 as stated: every Task and every TaskIntent produced from a text carries
\* one of the known action tags.
C6_EveryActionTagKnown ==
    /\ (last_call = "parse_automation_request" /\ task # NoTask) =>
          task.action \in KnownActions
    /\ last_call = "parse_intent" => intent.action \in KnownActions

\* C6: every Task of parse_automation_request carries a known action tag; a
\* TaskIntent carries the action of a template when one matches, and otherwise
\* the first word of the lower-cased text when it has two words or more, and
\* "unknown" when it has fewer.
C6_TaskTagsKnownIntentTagsOpen ==
    /\ (last_call = "parse_automation_request" /\ task # NoTask) =>
          task.action \in KnownActions
    /\ last_call = "parse_intent" =>
          LET lower == Lower(message)
              words == Split(lower)
          IN  IF \E t \in 1..Len(task_templates) : Found(t, lower) # {}
              THEN intent.action \in TemplateActions
              ELSE IF Len(words) >= 2 THEN intent.action = words[1]
              ELSE intent.action = "unknown"

\* an intent whose action tag is the first word of the text, not a known tag
C6_Witness ==
    /\ last_call = "parse_intent"
    /\ intent.action \notin KnownActions
    /\ intent.action # "unknown"

\* C7: dispatching a task whose action tag is not a known one runs no executor
\* and no primitive, and completes with "Unknown action: <tag>" delivered by
\* task_completed, not by error_occurred.
C7_UnknownActionCompletes ==
    (last_call = "execute_task" /\ task.action \notin KnownActions) =>
        /\ dispatched.executor = "none"
        /\ dispatched.calls = << >>
        /\ dispatched.signal = <<"task_completed", "Unknown action: " \o task.action>>

\* a task with an unknown action tag has been dispatched
C7_Witness ==
    /\ last_call = "execute_task"
    /\ task.action \notin KnownActions
    /\ dispatched.signal[1] = "task_completed"

\* C8 as stated: whenever a primitive faults inside an executor, the executor
\* returns a string beginning with "Error" and execute_task completes.
C8_FaultGivesErrorString ==
    (last_call = "execute_task" /\ dispatched.fault # "none") =>
        /\ dispatched.signal[1] = "task_completed"
        /\ StartsWith(dispatched.signal[2], "Error")

\* C8: whenever a primitive faults inside an executor, no fault leaves the
\* executor and its result begins with "Error", except that a
\* FileNotFoundError of the launch by bare name gives "Could not find
\* application: <name>" and a fault while locating or clicking an image gives
\* "Could not click <target>".
C8_FaultGivesErrorOrCouldNot ==
    (last_call = "execute_task" /\ dispatched.fault # "none") =>
        /\ dispatched.signal[1] = "task_completed"
        /\ \/ StartsWith(dispatched.signal[2], "Error")
           \/ /\ dispatched.executor = "open_application"
              /\ dispatched.fault = "FileNotFoundError"
              /\ dispatched.calls = << "Popen:" \o task.target >>
              /\ dispatched.signal[2] = "Could not find application: " \o task.target
           \/ /\ dispatched.executor = "perform_interaction"
              /\ task.action = "click"
              /\ dispatched.calls[1] = "locateOnScreen:" \o task.target \o ".png"
              /\ dispatched.signal[2] = "Could not click " \o task.target

\* a primitive faulted and the result does not begin with "Error"
C8_Witness ==
    /\ last_call = "execute_task"
    /\ dispatched.fault # "none"
    /\ ~StartsWith(dispatched.signal[2], "Error")

Least(S) == CHOOSE k \in S : \A j \in S : k <= j

\* C9: the intent carries the action of the first template, in declaration
\* order, one of whose patterns is found in the text, and the group of the
\* first such pattern of that template; a text matched by both an
\* open_application pattern and a file_operation pattern yields open_app.
C9_FirstTemplateFirstPatternWins ==
    last_call = "parse_intent" =>
        LET lower == Lower(message)
            matching == Matching(lower)
            t == Least(matching)
            found == Found(t, lower)
            m == Search(task_templates[t].patterns[Least(found)], lower)
        IN  matching # {} =>
                /\ intent.action = task_templates[t].action
                /\ intent.target = IF m.groups > 0 THEN m.g1 ELSE ""
                /\ ({1, 3} \subseteq matching) => intent.action = "open_app"

\* a text matched by an open_application pattern and by a file_operation one
C9_Witness ==
    /\ last_call = "parse_intent"
    /\ {1, 3} \subseteq Matching(Lower(message))

\* C10: for every text, parse_intent returns a category among automation,
\* information and workflow and a confidence that is not negative, and
\* process_message answers with response_ready, never with error_occurred.
C10_CategoryAndConfidence ==
    last_call = "process_message" =>
        /\ intent.task_type \in {"automation", "information", "workflow"}
        /\ intent.confidence.num >= 0
        /\ intent.confidence.den > 0
        /\ Len(ai_signals) = 1
        /\ ai_signals[1][1] = "response_ready"

\* a text that hits no keyword of any bucket has been classified
C10_Witness ==
    /\ last_call = "process_message"
    /\ intent.confidence.num = 0
    /\ intent.task_type = "automation"

\* the number of keywords of the named bucket found in the lower-cased text
Hits(name) ==
    LET k == CHOOSE j \in 1..Len(intents) : intents[j].name = name
    IN  Score(intents[k].words, Lower(message))

BucketOrder == <<"automation", "information", "workflow">>

\* C11: parse_intent selects the bucket with the highest keyword-hit count and,
\* among buckets that tie for it, the earliest of automation, information,
\* workflow; a text that hits no keyword is classified as automation.
C11_HighestCountEarliestWins ==
    last_call = "process_message" =>
        \E w \in 1..Len(BucketOrder) :
            /\ intent.task_type = BucketOrder[w]
            /\ \A j \in 1..Len(BucketOrder) : Hits(BucketOrder[j]) <= Hits(BucketOrder[w])
            /\ \A j \in 1..(w - 1) : Hits(BucketOrder[j]) < Hits(BucketOrder[w])
            /\ (\A j \in 1..Len(BucketOrder) : Hits(BucketOrder[j]) = 0) => w = 1

\* information and workflow tie for the highest count, above automation
C11_Witness ==
    /\ last_call = "process_message"
    /\ Hits("information") = Hits("workflow")
    /\ Hits("information") > Hits("automation")
    /\ intent.task_type = "information"

\* C12 as stated: the confidence of every intent lies in [0, 1], the winning
\* count never exceeding max(word count, 1).
C12_ConfidenceInUnitInterval ==
    last_call = "process_message" =>
        /\ 0 <= intent.confidence.num
        /\ intent.confidence.num <= intent.confidence.den

\* C12: the confidence of every intent is the winning bucket's keyword-hit
\* count divided by max(word count of the text, 1); it is never negative, and
\* it exceeds 1 when the count exceeds the word count.
C12_ConfidenceIsCountOverWords ==
    last_call = "process_message" =>
        /\ intent.confidence.num = Hits(intent.task_type)
        /\ intent.confidence.den = Max(Len(Split(message)), 1)
        /\ intent.confidence.num >= 0
        /\ intent.confidence.den >= 1

\* a text whose winning count exceeds its word count: confidence above 1
C12_Witness ==
    /\ last_call = "process_message"
    /\ intent.confidence.num > intent.confidence.den

\* no pattern of any template is found in the lower-cased text
NoTemplateFound == \A t \in 1..Len(task_templates) : Found(t, Lower(message)) = {}

\* C13 as stated: when no template matches, the action is the first word of
\* the text and the target the remaining words joined by single blanks when
\* the text has two words or more, and otherwise the action is "unknown" and
\* the target the full text; the parameter map is empty.
C13_FallbackOnTextWords ==
    (last_call = "parse_intent" /\ NoTemplateFound) =>
        LET words == Split(message)
        IN  /\ intent.parameters = EmptyMap
            /\ IF Len(words) >= 2
               THEN intent.action = words[1] /\ intent.target = Join(Tail(words), " ")
               ELSE intent.action = "unknown" /\ intent.target = message

\* C13: when no template matches, the action is the first word of the
\* lower-cased text and the target its remaining words joined by single
\* blanks when the text has two words or more, and otherwise the action is
\* "unknown" and the target the full text as typed; the parameter map is empty.
C13_FallbackOnLowerCasedWords ==
    (last_call = "parse_intent" /\ NoTemplateFound) =>
        LET words == Split(Lower(message))
        IN  /\ intent.parameters = EmptyMap
            /\ IF Len(words) >= 2
               THEN intent.action = words[1] /\ intent.target = Join(Tail(words), " ")
               ELSE intent.action = "unknown" /\ intent.target = message

\* the fallback took the first word of a text typed with a capital
C13_Witness ==
    /\ last_call = "parse_intent"
    /\ NoTemplateFound
    /\ Len(Split(message)) >= 2
    /\ intent.action # Split(message)[1]
    /\ intent.action = Lower(Split(message)[1])

\* the text is "open W", W one word of letters, digits and underscores
IsOpenW ==
    LET words == Split(message)
    IN  /\ Len(words) = 2
        /\ words[1] = "open"
        /\ message = "open " \o words[2]
        /\ \A k \in 1..Len(words[2]) : IsWordCh(Ch(words[2], k))

\* C14 as stated: for every text "open W", both parsers yield the action
\* open_app and the parameter app_name = W.
C14_OpenWordGivesAppName ==
    LET W == Split(message)[2]
    IN  /\ (last_call = "parse_intent" /\ IsOpenW) =>
              /\ intent.action = "open_app"
              /\ "app_name" \in DOMAIN intent.parameters
              /\ intent.parameters["app_name"] = W
        /\ (last_call = "parse_automation_request" /\ IsOpenW) =>
              /\ task.action = "open_app"
              /\ task.parameters.app_name = W

\* C14: for every text "open W", both parsers yield the action open_app and
\* the parameter app_name = W lower-cased; the intent's target is W
\* lower-cased, the task's target is what the name-mapping table gives for it
\* (itself when the table has no entry).
C14_OpenWordGivesLowerCasedAppName ==
    LET w == Lower(Split(message)[2])
    IN  /\ (last_call = "parse_intent" /\ IsOpenW) =>
              /\ intent.action = "open_app"
              /\ intent.target = w
              /\ intent.parameters = ("app_name" :> w)
        /\ (last_call = "parse_automation_request" /\ IsOpenW) =>
              /\ task.action = "open_app"
              /\ task.target = Get(app_mappings, w, w)
              /\ task.parameters = [app_name |-> w, mapped_app |-> Get(app_mappings, w, w)]

\* "open W" with a capital in W has been parsed into a task
C14_Witness ==
    /\ last_call = "parse_automation_request"
    /\ IsOpenW
    /\ Split(message)[2] # Lower(Split(message)[2])
    /\ task.parameters.app_name = Lower(Split(message)[2])

\* the text is "search for Q", Q one word or more separated by single blanks
IsSearchForQ ==
    LET words == Split(message)
    IN  /\ Len(words) >= 3
        /\ words[1] = "search"
        /\ words[2] = "for"
        /\ message = Join(words, " ")

TheQ == LET words == Split(message) IN Join(SubSeq(words, 3, Len(words)), " ")

\* C15 as stated: for every text "search for Q" that matches no
\* open/launch/start rule, both parsers yield the action web_search with
\* target exactly Q.
C15_SearchForGivesQ ==
    /\ (last_call = "parse_intent" /\ IsSearchForQ /\ Found(1, Lower(message)) = {}) =>
          /\ intent.action = "web_search"
          /\ intent.target = TheQ
    /\ (last_call = "parse_automation_request" /\ IsSearchForQ
           /\ ~AnyIn(routing[1], Lower(message))) =>
          /\ task.action = "web_search"
          /\ task.target = TheQ

\* C15: for every text "search for Q" that matches no open/launch/start rule,
\* both parsers yield the action web_search with target Q lower-cased, the
\* leading "for" excluded.
C15_SearchForGivesLowerCasedQ ==
    /\ (last_call = "parse_intent" /\ IsSearchForQ /\ Found(1, Lower(message)) = {}) =>
          /\ intent.action = "web_search"
          /\ intent.target = Lower(TheQ)
    /\ (last_call = "parse_automation_request" /\ IsSearchForQ
           /\ ~AnyIn(routing[1], Lower(message))) =>
          /\ task.action = "web_search"
          /\ task.target = Lower(TheQ)
          /\ task.parameters.query = Lower(TheQ)

\* "search for Q" with a capital in Q has been parsed into a task
C15_Witness ==
    /\ last_call = "parse_automation_request"
    /\ IsSearchForQ
    /\ ~AnyIn(routing[1], Lower(message))
    /\ TheQ # Lower(TheQ)
    /\ task.target = Lower(TheQ)

LocalReplies ==
    {"Hello! I'm your Windows AI Assistant. How can I help you today?",
     "I can help you with: ... Just tell me what you'd like to do!",
     "I can help you open applications and files. Just tell me what you'd like to open!",
     "I can help you search the web or find files on your computer. What are you looking for?",
     "I understand you're asking about that. Let me help you with that task or question!"}

\* no remote backend answered: none was attempted, or each attempted one faulted
NoRemoteAnswer == \A k \in 1..Len(attempts) : attempts[k][1] = "local" \/ attempts[k][2] = "fault"

\* C17: when neither remote backend is configured or the attempted ones are
\* unreachable, generate_chat_response returns a non-empty string of the local
\* responder, for every text, the empty one included, and does not raise.
C17_LocalReplyWhenNoRemote ==
    (last_call = "generate_chat_response" /\ NoRemoteAnswer) =>
        /\ attempts[Len(attempts)] = <<"local", "ok">>
        /\ response # None
        /\ Len(response) > 0
        /\ response \in LocalReplies
        /\ response = generate_local_response(message)

\* the empty text was answered by the local responder after Gemini faulted
C17_Witness ==
    /\ last_call = "generate_chat_response"
    /\ message = ""
    /\ attempts = << <<"gemini", "fault">>, <<"local", "ok">> >>
    /\ response \in LocalReplies

\* a fault was raised while process_message handled its argument
FaultRaised ==
    \/ last_call = "process_message(None)"
    \/ last_call = "process_message" /\ \E k \in 1..Len(attempts) : attempts[k][2] = "fault"

\* C18 as stated: any fault raised while process_message handles a message,
\* response generation included, ends in exactly one error_occurred and no
\* response_ready.
C18_AnyFaultReportedOnce ==
    FaultRaised =>
        /\ Len(ai_signals) = 1
        /\ ai_signals[1][1] = "error_occurred"

\* C18: a fault that reaches the try block of process_message ends in exactly
\* one error_occurred and no response_ready; a fault of a remote backend is
\* caught inside the backend chain and ends in one response_ready carrying
\* the local responder's reply, and no error_occurred.
C18_TopFaultReportedBackendFaultAnswered ==
    /\ last_call = "process_message(None)" =>
          /\ Len(ai_signals) = 1
          /\ ai_signals[1][1] = "error_occurred"
          /\ StartsWith(ai_signals[1][2], "Error processing message: ")
    /\ (last_call = "process_message" /\ FaultRaised) =>
          ai_signals = << <<"response_ready", generate_local_response(message)>> >>

\* process_message has caught a fault in its except branch
C18_Witness ==
    /\ last_call = "process_message(None)"
    /\ Len(ai_signals) = 1
    /\ ai_signals[1][1] = "error_occurred"

\* thread k was dispatched, has not run its executor yet, and stop() was called
StoppedInFlight(k) ==
    /\ k \in 1..Len(threads)
    /\ threads[k].pc = "exec"
    /\ ~threads[k].running

\* thread k ran its executor to the end and its result was emitted
CompletedBg(k) ==
    /\ k \in 1..Len(threads)
    /\ threads[k].pc = "finished"
    /\ Len(requests[threads[k].req].signals) = 1
    /\ requests[threads[k].req].signals[1][1] = "task_completed"
    /\ requests[threads[k].req].executor # "-"

AppOf(app_name) ==
    IF \E k \in 1..Len(app_paths) : app_paths[k][1] = app_name THEN app_name
    ELSE IF \E k \in 1..Len(app_aliases) : app_aliases[k][1] = app_name
    THEN app_aliases[CHOOSE k \in 1..Len(app_aliases) : app_aliases[k][1] = app_name][2]
    ELSE IF \E k \in 1..Len(app_mappings) : app_mappings[k][1] = app_name
    THEN app_mappings[CHOOSE k \in 1..Len(app_mappings) : app_mappings[k][1] = app_name][2]
    ELSE None

\* the paths of the path table under the application a name stands for
PathsOf(app_name) ==
    {app_paths[k][2] : k \in {j \in 1..Len(app_paths) : app_paths[j][1] = AppOf(app_name)}}

\* the resolved path is launched: one was resolved and it exists on disk
LaunchesPath == PathsOf(task.target) # {} /\ environment.exists

\* C20: open_app dispatch resolves the target through the path table, then
\* the alias table, then the name-mapping table; it launches the resolved
\* path if and only if one was resolved and exists on disk, otherwise it
\* attempts exactly one launch by bare name; a bare name that is not found
\* gives a string containing "Could not find" and no raise; there is one
\* launch attempt per call, so at most one process is spawned.
C20_OpenAppResolvesAndLaunchesOnce ==
    last_call = "execute_task" =>
        /\ dispatched.executor = "open_application"
        /\ Len(dispatched.calls) = 1
        /\ LaunchesPath <=> (\E p \in PathsOf(task.target) : dispatched.calls[1] = "Popen:" \o p)
        /\ ~LaunchesPath => dispatched.calls[1] = "Popen:" \o task.target
        /\ dispatched.raised = "none"
        /\ dispatched.signal = <<"task_completed", response>>
        /\ response # None
        /\ (~LaunchesPath /\ dispatched.fault = "FileNotFoundError") =>
              Contains(response, "Could not find")
        /\ dispatched.fault = "none" => response = "Opened " \o task.target

\* a name found in the name-mapping table only was launched, once, by the
\* path of the application it stands for
C20_Witness ==
    /\ last_call = "execute_task"
    /\ task.target = "google chrome"
    /\ environment.exists
    /\ dispatched.calls =
          <<"Popen:C:\\Program Files\\Google\\Chrome\\Application\\chrome.exe">>
    /\ dispatched.fault = "none"
    /\ response = "Opened google chrome"

\* the value a system_control task carries, "unknown" when it carries none
ValueOf(t) == IF "value" \in DOMAIN t.parameters THEN t.parameters.value ELSE "unknown"

\* a control type and value for which perform_system_control has no branch
Unmapped(t) ==
    \/ t.target \notin {"volume", "brightness", "wifi", "bluetooth"}
    \/ t.target = "volume" /\ ValueOf(t) \notin {"up", "down", "off"}
    \/ t.target = "brightness" /\ ValueOf(t) \notin {"up", "down"}

\* C21: system_control dispatch with a control type and value that have no
\* mapping returns an "Unknown control type" result and performs no key
\* press and no process launch.
C21_UnmappedControlHasNoEffect ==
    (last_call = "execute_task" /\ task.action = "system_control" /\ Unmapped(task)) =>
        /\ dispatched.executor = "perform_system_control"
        /\ dispatched.calls = << >>
        /\ dispatched.fault = "none"
        /\ response = "Unknown control type: " \o task.target
        /\ dispatched.signal = <<"task_completed", response>>

\* volume with the value "on", which the parser can set, has been dispatched
C21_Witness ==
    /\ last_call = "execute_task"
    /\ task.action = "system_control"
    /\ task.target = "volume"
    /\ ValueOf(task) = "on"
    /\ response = "Unknown control type: volume"
    /\ dispatched.calls = << >>

\* the operations perform_file_operation has a branch for
FileOperations == {"open", "create", "delete"}

\* the text names one of the operations the parser looks for
NamesOperation(lower) ==
    \E w \in {"create", "delete", "remove", "save"} : Contains(lower, w)

\* C22: every file_operation task produced by the parser carries an operation
\* in {open, create, delete}, with open as the default when the text names no
\* operation.
C22_FileOperationInOpenCreateDelete ==
    (last_call = "parse_automation_request" /\ task # NoTask) =>
        (task.action = "file_operation" =>
            /\ task.parameters.operation \in FileOperations
            /\ ~NamesOperation(Lower(message)) => task.parameters.operation = "open")

\* the parameters a template can ask extract_parameters for
ParameterKeys == {"app_name", "query", "file_path"}

\* C23 as stated: each parameter's regex runs against the text as typed, so
\* every extracted parameter value keeps the letter case of the text and is
\* a part of it.
C23_ParametersKeepLetterCase ==
    (last_call = "parse_intent" /\ ~NoTemplateFound) =>
        \A key \in DOMAIN intent.parameters :
            Contains(message, intent.parameters[key])

\* C23: each parameter's regex runs against the lower-cased text, so every
\* extracted parameter value (app_name, query, file_path) is a part of the
\* lower-cased text and holds no capital letter; it keeps the letter case of
\* the text only where the text has no capital.
C23_ParametersAreLowerCased ==
    (last_call = "parse_intent" /\ ~NoTemplateFound) =>
        /\ DOMAIN intent.parameters \subseteq ParameterKeys
        /\ \A key \in DOMAIN intent.parameters :
              /\ Contains(Lower(message), intent.parameters[key])
              /\ intent.parameters[key] = Lower(intent.parameters[key])

\* a query was extracted that is not in the text as typed, only in the
\* lower-cased one
C23_Witness ==
    /\ last_call = "parse_intent"
    /\ ~NoTemplateFound
    /\ "query" \in DOMAIN intent.parameters
    /\ ~Contains(message, intent.parameters["query"])
    /\ Contains(Lower(message), intent.parameters["query"])

\* the tasks whose executor is running, on the interactive thread or on a
\* background thread
ExecutingTasks ==
    (IF ui.pc = "exec" THEN {ui.task} ELSE {})
        \cup {threads[k].task : k \in {j \in 1..Len(threads) : threads[j].pc = "exec"}}

\* C24: in every reachable state, whenever some executor is running,
\* is_running is True and current_task is a task that is executing;
\* is_running is False and current_task is None only when no task is
\* executing.
C24_RunningFlagsFollowExecution ==
    /\ ExecutingTasks # {} =>
          /\ is_running
          /\ current_task \in ExecutingTasks
    /\ (~is_running /\ current_task = NoTask) => ExecutingTasks = {}

\* request r was accepted: process_request parsed it into a task
Accepted(r) ==
    /\ r \in 1..Len(requests)
    /\ parse_automation_request(requests[r].text, requests[r].background_mode) # NoTask

\* request r has emitted its result notification
Notified(r) ==
    /\ r \in 1..Len(requests)
    /\ Len(requests[r].signals) = 1
    /\ requests[r].signals[1][1] \in {"task_completed", "error_occurred"}

\* every request made so far has emitted its one result notification, no
\* call is in progress, and the engine is idle
Quiescent ==
    /\ \A r \in 1..Len(requests) : Notified(r) /\ Over(r)
    /\ ExecutingTasks = {}
    /\ ~is_running
    /\ current_task = NoTask

\* C25: when every executor call terminates and the threads are scheduled
\* fairly, every accepted request eventually emits its result notification,
\* and once no task is executing the engine eventually has is_running = False
\* and current_task = None.  A notification is never withdrawn and a run has
\* finitely many requests, so both parts say that the run ends up, for good,
\* with every request notified and the engine idle.
C25_EveryRequestNotifiedAndEngineIdle == <>[]Quiescent

\* an accepted background request is over: its result was emitted and the
\* engine is idle again
C25_Witness ==
    \E r \in 1..Len(requests) :
        /\ Accepted(r)
        /\ requests[r].background_mode
        /\ Over(r)
        /\ Notified(r)
        /\ requests[r].signals[1][1] = "task_completed"
        /\ ~is_running
        /\ current_task = NoTask
        /\ writers.current_task = {"interactive", "background"}

\* the text holds no keyword of any bucket
NoKeyword == \A k \in 1..Len(BucketOrder) : Hits(BucketOrder[k]) = 0

\* the reply of handle_automation_intent to a confidence of 0.3 or less
Clarification ==
    "I'm not sure what automation you'd like me to perform. Could you be more specific about what you want me to do?"

\* C26: a message that holds no keyword of any bucket never reaches the
\* response backend chain: it is classified as automation with confidence 0
\* and answered with the low-confidence clarification reply; and the category
\* is one of the three buckets for every message, so the chat branch of
\* process_message is never taken.
C26_NoKeywordNeverReachesBackends ==
    last_call = "process_message" =>
        /\ intent.task_type \in {BucketOrder[k] : k \in 1..Len(BucketOrder)}
        /\ NoKeyword =>
              /\ intent.task_type = "automation"
              /\ intent.confidence.num = 0
              /\ attempts = << >>
              /\ ai_signals = << <<"response_ready", Clarification>> >>

\* a greeting that holds no keyword was answered with the clarification, on
\* an engine that has a remote backend configured
C26_Witness ==
    /\ last_call = "process_message"
    /\ message = "hello"
    /\ NoKeyword
    /\ Configured("gemini") \/ Configured("openai")
    /\ attempts = << >>
    /\ ai_signals = << <<"response_ready", Clarification>> >>

\* the keyword groups, in the order of the claim, of which the lower-cased
\* text holds a word
GroupsIn(lower) ==
    {g \in 1..5 :
        \E w \in CASE g = 1 -> {"open", "launch", "start"}
                   [] g = 2 -> {"search", "google", "find"}
                   [] g = 3 -> {"file", "folder", "document"}
                   [] g = 4 -> {"volume", "brightness", "wifi", "bluetooth"}
                   [] g = 5 -> {"click", "type", "press"} : Contains(lower, w)}

\* the parser of keyword group g
GroupParser(g, request, background_mode) ==
    CASE g = 1 -> parse_open_app_request(request, background_mode)
      [] g = 2 -> parse_web_search_request(request, background_mode)
      [] g = 3 -> parse_file_operation_request(request, background_mode)
      [] g = 4 -> parse_system_control_request(request, background_mode)
      [] g = 5 -> parse_interaction_request(request, background_mode)

\* the action tags the parser of group g gives its tasks
GroupActions(g) ==
    CASE g = 1 -> {"open_app"}
      [] g = 2 -> {"web_search"}
      [] g = 3 -> {"file_operation"}
      [] g = 4 -> {"system_control"}
      [] g = 5 -> {"click", "type", "press"}

\* C27: parse_automation_request routes by substring keyword groups in the
\* precedence open/launch/start, search/google/find, file/folder/document,
\* volume/brightness/wifi/bluetooth, click/type/press: a request that holds
\* keywords of several groups is parsed by the parser of the earliest group,
\* wherever the keywords stand in the text.
C27_EarliestGroupParses ==
    last_call = "parse_automation_request" =>
        LET groups == GroupsIn(Lower(message))
        IN  groups # {} =>
              /\ task # NoTask
              /\ task = GroupParser(Least(groups), message, task.background_mode)
              /\ task.action \in GroupActions(Least(groups))

\* a text that starts with a file word and holds a search word after it was
\* parsed by the search parser
C27_Witness ==
    /\ last_call = "parse_automation_request"
    /\ StartsWith(Lower(message), "file")
    /\ GroupsIn(Lower(message)) = {2, 3}
    /\ task.action = "web_search"

\* request r holds none of the routing keywords
NotUnderstood(r) == ~HasRoutingKeyword(requests[r].text)

\* C28: when an automation request holds none of the routing keywords,
\* process_request emits the error notification "Could not understand the
\* automation request", invokes no executor, starts no background thread and
\* leaves current_task and is_running as they are.
C28_UnparsedRequestOnlyReportsError ==
    /\ [][(Len(requests') = Len(requests) + 1
             /\ ~HasRoutingKeyword(requests'[Len(requests')].text)) =>
              /\ current_task' = current_task
              /\ is_running' = is_running
              /\ threads' = threads
              /\ background_thread' = background_thread
              /\ ui' = ui
              /\ requests'[Len(requests')].returned]_vars
    /\ [](\A r \in 1..Len(requests) :
            NotUnderstood(r) =>
              /\ requests[r].signals =
                    << <<"error_occurred", "Could not understand the automation request">> >>
              /\ requests[r].executor = "-"
              /\ ~requests[r].faulted
              /\ \A k \in 1..Len(threads) : threads[k].req # r
              /\ ui.req # r)

\* a request that is not understood was answered while the task of an
\* earlier background request was still in flight
C28_Witness ==
    \E r \in 1..Len(requests) :
        /\ NotUnderstood(r)
        /\ requests[r].returned
        /\ requests[r].signals[1][1] = "error_occurred"
        /\ is_running
        /\ current_task # NoTask
        /\ \E k \in 1..Len(threads) : threads[k].pc = "exec" /\ threads[k].req < r

WorkflowKeys ==
    {"id", "steps", "name", "description", "trigger", "background", "schedule", "hotkey"}

\* workflow.get(key), None for a key the dict does not have
Field(workflow, key) ==
    IF key \in DOMAIN workflow THEN workflow[key]
    ELSE IF key = "schedule" THEN NoSchedule ELSE None

\* C30: opening the edit dialog on a workflow and accepting it without
\* changing any field leaves the workflow unchanged: id, steps, name,
\* description, trigger, background flag, schedule and hotkey all keep their
\* previous values.
C30_UnchangedEditKeepsWorkflow ==
    [][last_call' = "edit_workflow" =>
         /\ Len(workflows') = Len(workflows)
         /\ \A k \in 1..Len(workflows) : \A key \in WorkflowKeys :
               Field(workflows'[k], key) = Field(workflows[k], key)]_vars
====
